---- MODULE Spec2Model ----
(***************************************************************************)
(* naive_backlink: the httpx crawler (crawler.py) and the link logic it    *)
(* delegates to (link_logic.py), as a state machine over the asyncio event *)
(* loop: a FIFO ready queue of callbacks, the scheduler coroutine crawl(), *)
(* one task per started URL, per-domain semaphores and the wake event.     *)
(* The scoring function, the file cache (cache.py) and crawl_and_score     *)
(* (api.py) are exercised on their own, one call at a time.                *)
(***************************************************************************)
EXTENDS Integers, Sequences, FiniteSets, TLC

\* ------------------------------------------------------------------------
\* Bounds of the model
\* ------------------------------------------------------------------------
\* max_global_concurrency is drawn from 1..MaxGlobal
MaxGlobal == 2
\* max_hops is drawn from 1..MaxHopsCfg
MaxHopsCfg == 3

\* ------------------------------------------------------------------------
\* URLs.  A URL is the result of urlparse: scheme, netloc (sequence of
\* labels), path (sequence of tokens), query, fragment.
\* ------------------------------------------------------------------------
Lower(tok) ==
  CASE tok = "HTTPS" -> "https"
    [] tok = "HTTP" -> "http"
    [] tok = "A" -> "a"
    [] tok = "B" -> "b"
    [] tok = "EXAMPLE" -> "example"
    [] tok = "X" -> "x"
    [] tok = "Q=1" -> "q=1"
    [] tok = "GitHub" -> "github"
    [] tok = "Sponsors" -> "sponsors"
    [] tok = "Text/HTML" -> "text/html"
    [] tok = "Charset=UTF-8" -> "charset=utf-8"
    [] tok = "Content-Type" -> "content-type"
    [] tok = "X-RateLimit" -> "x-ratelimit"
    [] OTHER -> tok

LowerSeq(s) == [i \in 1..Len(s) |-> Lower(s[i])]

Url(scheme, netloc, path, fragment) ==
  [scheme |-> scheme, netloc |-> netloc, path |-> path, query |-> "",
   fragment |-> fragment]

UrlQ(scheme, netloc, path, query, fragment) ==
  [scheme |-> scheme, netloc |-> netloc, path |-> path, query |-> query,
   fragment |-> fragment]

normalize_url_LowerAll(u) ==
  LET p == u.path
      path == IF p = <<"/">> THEN <<>>
              ELSE IF Len(p) > 1 /\ p[Len(p)] = "/" THEN SubSeq(p, 1, Len(p) - 1)
              ELSE p
  IN [u EXCEPT !.scheme = Lower(u.scheme),
               !.netloc = [i \in 1..Len(u.netloc) |-> Lower(u.netloc[i])],
               !.path = [i \in 1..Len(path) |-> Lower(path[i])],
               !.query = Lower(u.query), !.fragment = ""]

\* link_logic.normalize_url
normalize_url(u) ==
  LET p == u.path
      path == IF p = <<"/">> THEN <<>>
              ELSE IF Len(p) > 1 /\ p[Len(p)] = "/" THEN SubSeq(p, 1, Len(p) - 1)
              ELSE p
  IN [u EXCEPT !.scheme = Lower(u.scheme), !.netloc = LowerSeq(u.netloc),
               !.path = path, !.fragment = ""]

\* the directory of a path: up to and including its last "/"
RECURSIVE DirOf(_)
DirOf(path) ==
  IF path = <<>> THEN <<"/">>
  ELSE IF path[Len(path)] = "/" THEN path
  ELSE DirOf(SubSeq(path, 1, Len(path) - 1))

\* urllib.parse.urljoin(current_url, href): an href with a scheme stands for
\* itself, //host/path takes the base scheme, a path reference is resolved
\* against the base
urljoin(base, href) ==
  IF href.scheme # "" THEN href
  ELSE IF href.netloc # <<>> THEN [href EXCEPT !.scheme = base.scheme]
  ELSE IF href.path = <<>>
    THEN [base EXCEPT !.fragment = href.fragment]
  ELSE IF href.path[1] = "/"
    THEN [base EXCEPT !.path = href.path, !.fragment = href.fragment]
  ELSE [base EXCEPT !.path = DirOf(base.path) \o href.path,
                    !.fragment = href.fragment]

ALLOWED_SCHEMES == {"http", "https"}
_scheme(u) == Lower(u.scheme)
is_fetchable_url(u) == _scheme(u) \in ALLOWED_SCHEMES

EXTENSION_DENYLIST == {".png", ".pdf", ".css"}
ExtTokens == {".png", ".pdf", ".css", ".html", ".PNG"}
LowerExt(tok) == IF tok = ".PNG" THEN ".png" ELSE tok
\* os.path.splitext(path.lower())[1]: the suffix of the last segment, when
\* that segment has a name before the dot
_path_ext(u) ==
  LET p == u.path
  IN IF Len(p) >= 2 /\ p[Len(p)] \in ExtTokens /\ p[Len(p) - 1] # "/"
       THEN LowerExt(p[Len(p)]) ELSE ""

is_probably_html_url(u) ==
  /\ is_fetchable_url(u)
  /\ ~(_path_ext(u) # "" /\ _path_ext(u) \in EXTENSION_DENYLIST)

_netloc(u) == LowerSeq(u.netloc)

\* tldextract.extract(host).registered_domain: the last two labels
registered_domain(host) ==
  IF Len(host) >= 2 THEN SubSeq(host, Len(host) - 1, Len(host)) ELSE <<>>

_domain_group_HostOnly(u, use_registrable) == LowerSeq(u.netloc)

\* crawler._domain_group
_domain_group(u, use_registrable) ==
  LET host == LowerSeq(u.netloc)
  IN IF host = <<>> THEN <<>>
     ELSE IF use_registrable /\ registered_domain(host) # <<>>
       THEN registered_domain(host)
     ELSE host


\* link_logic._rel_list: the lowercased rel tokens of a tag
_rel_list(tag) == tag.rel

NON_HTML_REL == {"icon", "stylesheet", "preload"}
_is_asset_rel(tag) == \E r \in _rel_list(tag) : r \in NON_HTML_REL

extract_href_elements_DocumentOrder(soup) == soup

\* link_logic.extract_href_elements: anchors first, then head links
extract_href_elements(soup) ==
  SelectSeq(soup, LAMBDA el : el.tag = "a") \o
  SelectSeq(soup, LAMBDA el : el.tag = "link")

\* ------------------------------------------------------------------------
\* The web served to the crawler, and the configurations of a crawl
\* ------------------------------------------------------------------------
hA == <<"a", "example">>
hB == <<"b", "example">>
hC == <<"c", "example">>
hK == <<"k", "example">>
hSubB == <<"sub", "b", "example">>

Page(host) == Url("https", host, <<>>, "")
PageAt(host, path) == Url("https", host, path, "")

A_url == Page(hA)
B_url == Page(hB)
C_url == Page(hC)
K_url == Page(hK)
X_url == PageAt(hB, <<"/", "x">>)
S_url == Page(hSubB)
Y_url == PageAt(hB, <<"/", "y">>)

Anchor(href, rel) == [tag |-> "a", href |-> href, rel |-> rel]
HeadLink(href, rel) == [tag |-> "link", href |-> href, rel |-> rel]

\* Scenario 5 of the specification: A -> B, B -> A and C, C -> B
Web_Chain ==
  (A_url :> <<Anchor(Url("HTTPS", <<"B", "EXAMPLE">>, <<"/">>, "frag"), {})>>) @@
  (B_url :> <<Anchor(PageAt(hA, <<"/">>), {}), Anchor(C_url, {})>>) @@
  (C_url :> <<Anchor(B_url, {})>>)

\* Two pivots B and K share the neighbor X, which lives on B's host;
\* X links to the origin (with rel=me in a head link) and to both pivots
Web_Shared ==
  (A_url :> <<Anchor(B_url, {}), Anchor(X_url, {}), Anchor(K_url, {}),
              HeadLink(PageAt(hC, <<"/", "s", ".css">>), {"stylesheet"}),
              Anchor(Url("mailto", <<>>, <<"me">>, ""), {})>>) @@
  (B_url :> <<Anchor(A_url, {"me"}), Anchor(X_url, {}), Anchor(C_url, {})>>) @@
  (K_url :> <<Anchor(X_url, {}), Anchor(A_url, {}), Anchor(C_url, {})>>) @@
  (X_url :> <<Anchor(K_url, {}), Anchor(B_url, {}),
              HeadLink(A_url, {"me"})>>) @@
  (C_url :> <<Anchor(A_url, {}), Anchor(A_url, {"me"}), Anchor(K_url, {}),
              Anchor(B_url, {})>>)

\* A pivot on a subdomain of another pivot's registrable domain
Web_Sub ==
  (A_url :> <<Anchor(S_url, {"me"}), Anchor(B_url, {})>>) @@
  (S_url :> <<HeadLink(A_url, {"me"}), Anchor(C_url, {})>>) @@
  (B_url :> <<Anchor(A_url, {}), Anchor(C_url, {}),
              Anchor(Url("", <<>>, <<"x">>, ""), {})>>) @@
  (C_url :> <<Anchor(S_url, {}), Anchor(Url("", hB, <<>>, ""), {})>>) @@
  (X_url :> <<Anchor(Url("", <<>>, <<"/">>, "top"), {})>>)

Webs == {Web_Chain, Web_Shared, Web_Sub}

\* Two pivots B and K; K lists the neighbor Y and B lists the neighbor X,
\* both on B's host
Web_Order ==
  (A_url :> <<Anchor(B_url, {}), Anchor(K_url, {})>>) @@
  (B_url :> <<Anchor(A_url, {}), Anchor(X_url, {})>>) @@
  (K_url :> <<Anchor(A_url, {}), Anchor(Y_url, {})>>) @@
  (X_url :> <<Anchor(B_url, {})>>) @@
  (Y_url :> <<Anchor(K_url, {})>>)

\* Two pivots B and K both link to the neighbor C, which links back to B
\* only; Y shares B's host
Web_Race ==
  (A_url :> <<Anchor(B_url, {}), Anchor(Y_url, {}), Anchor(K_url, {})>>) @@
  (B_url :> <<Anchor(A_url, {}), Anchor(C_url, {})>>) @@
  (K_url :> <<Anchor(A_url, {}), Anchor(C_url, {})>>) @@
  (C_url :> <<Anchor(B_url, {})>>) @@
  (Y_url :> <<Anchor(B_url, {})>>)

\* Two pages B and K that link to the origin and to each other; X shares
\* B's host
Web_Mutual ==
  (A_url :> <<Anchor(B_url, {}), Anchor(X_url, {}), Anchor(K_url, {})>>) @@
  (B_url :> <<Anchor(A_url, {}), Anchor(K_url, {})>>) @@
  (K_url :> <<Anchor(A_url, {}), Anchor(B_url, {})>>) @@
  (X_url :> <<Anchor(B_url, {})>>)

\* wildcard patterns as strings of tokens
Pat_C_All == <<"c", ".", "example", "/", "*">>             \* c.example/*
Pat_X_Section == <<"B", ".", "example", "/", "x", "/", "*">> \* B.example/x/*
Pat_Sub_B == <<"*", ".", "b", ".", "example">>             \* *.b.example
Pat_A_Host == <<"a", ".", "example">>                      \* a.example
Pat_Any_Example == <<"*", ".", "example", "/", "*">>       \* *.example/*
Pat_B_All == <<"b", ".", "example", "*">>                  \* b.example*

\* seed lists handed to Crawler(seed_urls=...)
SeedLists == {<<>>, <<B_url, PageAt(hA, <<"/">>)>>, <<S_url, B_url, X_url, K_url>>}

Configs ==
  [web : Webs,
   origin_url : {PageAt(hA, <<"/">>)},
   seed_urls : SeedLists,
   max_global_concurrency : 1..MaxGlobal,
   max_hops : 1..MaxHopsCfg,
   max_outlinks : {50},
   only_rel_me : BOOLEAN,
   use_registrable_domain : BOOLEAN,
   same_domain_policy : {"no-self-domain"},
   blacklist : {{}},
   whitelist : {{}},
   only_whitelist : {FALSE},
   raising : {{}},
   cache_enabled : {TRUE},
   cache_init : {{}, {B_url}}]

\* configurations in whitelist mode whose whitelist matches only some pages
WhitelistConfigs ==
  [web : {Web_Shared},
   origin_url : {PageAt(hA, <<"/">>)},
   seed_urls : {<<>>, <<C_url, X_url>>},
   max_global_concurrency : 1..MaxGlobal,
   max_hops : {3},
   max_outlinks : {50},
   only_rel_me : {FALSE},
   use_registrable_domain : {FALSE},
   same_domain_policy : {"no-self-domain"},
   blacklist : {{}},
   whitelist : {{Pat_C_All}, {Pat_B_All}, {Pat_C_All, Pat_X_Section}},
   only_whitelist : {TRUE},
   raising : {{}},
   cache_enabled : {TRUE},
   cache_init : {{}, {X_url}}]

\* configurations in which handling the response of one page raises an
\* exception that is neither an HTTP status error nor a network error
FaultConfigs ==
  [web : {Web_Shared},
   origin_url : {PageAt(hA, <<"/">>)},
   seed_urls : {<<>>},
   max_global_concurrency : 1..MaxGlobal,
   max_hops : {3},
   max_outlinks : {50},
   only_rel_me : {FALSE},
   use_registrable_domain : {FALSE},
   same_domain_policy : {"no-self-domain"},
   blacklist : {{}},
   whitelist : {{}},
   only_whitelist : {FALSE},
   raising : {{B_url}, {X_url}},
   cache_enabled : {TRUE},
   cache_init : {{}}]

\* configurations in which URLs of one host are enqueued by pages of
\* different hosts
OrderConfigs ==
  [web : {Web_Order},
   origin_url : {A_url},
   seed_urls : {<<>>},
   max_global_concurrency : 1..MaxGlobal,
   max_hops : {3},
   max_outlinks : {50},
   only_rel_me : {FALSE},
   use_registrable_domain : BOOLEAN,
   same_domain_policy : {"no-self-domain"},
   blacklist : {{}},
   whitelist : {{}},
   only_whitelist : {FALSE},
   raising : {{}},
   cache_enabled : {TRUE},
   cache_init : {{}, {B_url}}]

\* configurations in which the fetches of two pivots with a common neighbor
\* run concurrently
RaceConfigs ==
  [web : {Web_Race},
   origin_url : {A_url},
   seed_urls : {<<>>},
   max_global_concurrency : {2, 3},
   max_hops : {3},
   max_outlinks : {50},
   only_rel_me : {FALSE},
   use_registrable_domain : {FALSE},
   same_domain_policy : {"no-self-domain"},
   blacklist : {{}},
   whitelist : {{}},
   only_whitelist : {FALSE},
   raising : {{}},
   cache_enabled : {TRUE},
   cache_init : {{}}]

\* configurations whose cache holds none, some or all of the pages that the
\* origin page links to, all of which are started together
CachedConfigs ==
  [web : {Web_Mutual},
   origin_url : {A_url},
   seed_urls : {<<>>},
   max_global_concurrency : {4},
   max_hops : {3},
   max_outlinks : {50},
   only_rel_me : {FALSE},
   use_registrable_domain : {FALSE},
   same_domain_policy : {"no-self-domain"},
   blacklist : {{}},
   whitelist : {{}},
   only_whitelist : {FALSE},
   raising : {{}},
   cache_enabled : {TRUE},
   cache_init : {{}, {B_url}, {K_url}, {B_url, K_url, X_url}}]

\* configurations with a blacklist, in blacklist mode and in whitelist mode
PolicyConfigs ==
  [web : {Web_Shared, Web_Sub},
   origin_url : {PageAt(hA, <<"/">>)},
   seed_urls : {<<>>, <<S_url, B_url, X_url, K_url>>, <<C_url, X_url>>},
   max_global_concurrency : 1..MaxGlobal,
   max_hops : {3},
   max_outlinks : {50},
   only_rel_me : {FALSE},
   use_registrable_domain : {FALSE},
   same_domain_policy : {"no-self-domain"},
   blacklist : {{Pat_C_All}, {Pat_X_Section, Pat_Sub_B}, {Pat_A_Host}},
   whitelist : {{Pat_Any_Example}},
   only_whitelist : BOOLEAN,
   raising : {{}},
   cache_enabled : {TRUE},
   cache_init : {{}, {X_url}}]


\* ------------------------------------------------------------------------
\* State
\* ------------------------------------------------------------------------
VARIABLES
  config,                        \* Crawler.config / origin_url / seed_urls
  queue,                         \* Crawler.queue: deque of (url, hops)
  visited_urls,
  evidence_producing_urls,
  evidence,
  errors,
  parent,                        \* neighbor C -> pivot B
  pivot_has_backlink_to_origin,
  pivot_outlinked,               \* pivot B -> set of neighbors
  scheduled_urls,                \* Crawler._scheduled_urls
  queued_urls,                   \* Crawler._queued_urls
  domain_sems,                   \* key -> asyncio.Semaphore(1)
  waiting_by_domain,             \* key -> deque of (url, hops)
  domain_keys,                   \* insertion order of waiting_by_domain
  in_flight,                     \* set of tasks
  tasks,                         \* every task created by start_task
  ready,                         \* the event loop's FIFO of ready callbacks
  queue_event,                   \* asyncio.Event value
  main_pc,                       \* where crawl() stands
  cache,                         \* URLs with a stored 200 text/html entry
  fetch_log,                     \* history: passes of the pre-fetch gate
  enq_log,                       \* history: URLs appended to the queue
  begin_log,                     \* history: tasks entering _process_url
  call,                          \* a library function called on its own
  ret,                           \* and the value it returned
  file_cache,                    \* a FileCache object used on its own
  now                            \* time.time(), in seconds

vars == <<config, queue, visited_urls, evidence_producing_urls, evidence,
          errors, parent, pivot_has_backlink_to_origin, pivot_outlinked,
          scheduled_urls, queued_urls, domain_sems, waiting_by_domain,
          domain_keys, in_flight, tasks, ready, queue_event, main_pc, cache,
          fetch_log, enq_log, begin_log, call, ret, file_cache, now>>

\* the mutable state as one record, for the operators that model code
State ==
  [queue |-> queue, visited_urls |-> visited_urls,
   evidence_producing_urls |-> evidence_producing_urls,
   evidence |-> evidence, errors |-> errors, parent |-> parent,
   pivot_has_backlink_to_origin |-> pivot_has_backlink_to_origin,
   pivot_outlinked |-> pivot_outlinked, scheduled_urls |-> scheduled_urls,
   queued_urls |-> queued_urls, domain_sems |-> domain_sems,
   waiting_by_domain |-> waiting_by_domain, domain_keys |-> domain_keys,
   in_flight |-> in_flight, tasks |-> tasks, ready |-> ready,
   queue_event |-> queue_event, main_pc |-> main_pc, cache |-> cache,
   fetch_log |-> fetch_log, enq_log |-> enq_log, begin_log |-> begin_log]

Adopt(s) ==
  /\ queue' = s.queue
  /\ visited_urls' = s.visited_urls
  /\ evidence_producing_urls' = s.evidence_producing_urls
  /\ evidence' = s.evidence
  /\ errors' = s.errors
  /\ parent' = s.parent
  /\ pivot_has_backlink_to_origin' = s.pivot_has_backlink_to_origin
  /\ pivot_outlinked' = s.pivot_outlinked
  /\ scheduled_urls' = s.scheduled_urls
  /\ queued_urls' = s.queued_urls
  /\ domain_sems' = s.domain_sems
  /\ waiting_by_domain' = s.waiting_by_domain
  /\ domain_keys' = s.domain_keys
  /\ in_flight' = s.in_flight
  /\ tasks' = s.tasks
  /\ ready' = s.ready
  /\ queue_event' = s.queue_event
  /\ main_pc' = s.main_pc
  /\ cache' = s.cache
  /\ fetch_log' = s.fetch_log
  /\ enq_log' = s.enq_log
  /\ begin_log' = s.begin_log
  /\ UNCHANGED <<config, call, ret, file_cache, now>>

normalized_origin_url == normalize_url(config.origin_url)

Item(url, hops) == [url |-> url, hops |-> hops]

MainHandle == [kind |-> "main", t |-> 0]
StepHandle(t) == [kind |-> "step", t |-> t]
DoneHandle(t) == [kind |-> "done_cb", t |-> t]

\* ------------------------------------------------------------------------
\* asyncio primitives (CPython 3.11 asyncio/locks.py)
\* ------------------------------------------------------------------------
\* Semaphore.locked
Locked(sem) == sem.value = 0 \/ sem.waiters # <<>>

\* Event.set: wakes crawl() when it sleeps in queue_event.wait()
EventSet(s) ==
  IF s.queue_event THEN s
  ELSE [s EXCEPT !.queue_event = TRUE,
                 !.ready = IF s.main_pc = "waiting" THEN Append(@, MainHandle) ELSE @,
                 !.main_pc = IF @ = "waiting" THEN "woken" ELSE @]

\* Semaphore._wake_up_next: hand the permit to the first waiter not yet woken
WakeUpNext(s, key) ==
  LET ws == s.domain_sems[key].waiters
      pending == {i \in 1..Len(ws) : s.tasks[ws[i]].pc = "sem_wait"}
  IN IF pending = {} THEN s
     ELSE LET i == CHOOSE j \in pending : \A k \in pending : j <= k
              t == ws[i]
          IN [s EXCEPT !.domain_sems[key].value = @ - 1,
                       !.tasks[t].pc = "sem_granted",
                       !.ready = Append(@, StepHandle(t))]

\* Semaphore.release
Release(s, key) ==
  WakeUpNext([s EXCEPT !.domain_sems[key].value = @ + 1], key)


\* ------------------------------------------------------------------------
\* link_logic.py: policies, candidate selection, backlink detection
\* ------------------------------------------------------------------------
SeqToSet(q) == {q[i] : i \in 1..Len(q)}

\* a host as a string: its labels joined by "."
RECURSIVE HostStr(_)
HostStr(host) ==
  IF Len(host) <= 1 THEN host
  ELSE <<host[1], ".">> \o HostStr(Tail(host))

\* str.lstrip("/") and str.rstrip("/")
RECURSIVE LStripSlash(_)
LStripSlash(str) ==
  IF str # <<>> /\ str[1] = "/" THEN LStripSlash(Tail(str)) ELSE str

RECURSIVE RStripSlash(_)
RStripSlash(str) ==
  IF str # <<>> /\ str[Len(str)] = "/"
    THEN RStripSlash(SubSeq(str, 1, Len(str) - 1)) ELSE str

\* str.replace("/*", "")
RECURSIVE RemoveSlashStar(_)
RemoveSlashStar(str) ==
  IF str = <<>> THEN <<>>
  ELSE IF Len(str) >= 2 /\ str[1] = "/" /\ str[2] = "*"
    THEN RemoveSlashStar(SubSeq(str, 3, Len(str)))
  ELSE <<str[1]>> \o RemoveSlashStar(Tail(str))

\* link_logic._host_and_hostpath: (host, host+path), lowercased, the path
\* without its leading "/", query and fragment ignored
_host_and_hostpath(u) ==
  LET p == normalize_url(u)
      host == HostStr(LowerSeq(p.netloc))
      path == LowerSeq(LStripSlash(p.path))
  IN [host |-> host,
      hostpath |-> IF path # <<>> THEN host \o <<"/">> \o path ELSE host]

\* fnmatch.fnmatchcase on strings of tokens: "*" matches any run of tokens
RECURSIVE fnmatchcase(_, _)
fnmatchcase(c, p) ==
  IF p = <<>> THEN c = <<>>
  ELSE IF p[1] = "*"
    THEN fnmatchcase(c, Tail(p)) \/ (c # <<>> /\ fnmatchcase(Tail(c), p))
  ELSE c # <<>> /\ c[1] = p[1] /\ fnmatchcase(Tail(c), Tail(p))

\* pairs (token, proper suffix of its characters) among the tokens in use
CharSuffixes == {<<"notexample", "example">>}

\* str.endswith
endswith(str, suffix) ==
  \/ suffix = <<>>
  \/ /\ Len(str) >= Len(suffix)
     /\ SubSeq(str, Len(str) - Len(suffix) + 2, Len(str)) = Tail(suffix)
     /\ LET tok == str[Len(str) - Len(suffix) + 1]
        IN \/ tok = suffix[1]
           \/ <<tok, suffix[1]>> \in CharSuffixes

\* the strict-subdomain rule of a pattern that begins with "*."
SubdomainRule(host, p) ==
  /\ Len(p) >= 2 /\ p[1] = "*" /\ p[2] = "."
  /\ LET suffix == RStripSlash(RemoveSlashStar(SubSeq(p, 3, Len(p))))
     IN endswith(host, suffix) /\ host # suffix

_match_url_against_patterns_HostPathOnly(u, patterns) ==
  LET host == _host_and_hostpath(u).host
      hostpath == _host_and_hostpath(u).hostpath
  IN /\ patterns # {}
     /\ host # <<>>
     /\ \E pat \in patterns :
          \/ fnmatchcase(hostpath, LowerSeq(pat))
          \/ SubdomainRule(host, LowerSeq(pat))

\* link_logic._match_url_against_patterns
_match_url_against_patterns(u, patterns) ==
  LET host == _host_and_hostpath(u).host
      hostpath == _host_and_hostpath(u).hostpath
      candidates == {host, host \o <<"/">>, host \o <<"/", "*">>,
                     hostpath, hostpath \o <<"/">>, hostpath \o <<"/", "*">>}
  IN /\ patterns # {}
     /\ host # <<>>
     /\ \E pat \in patterns :
          LET p == LowerSeq(pat)
          IN \/ \E c \in candidates : fnmatchcase(c, p)
             \/ SubdomainRule(host, p)

is_blacklisted(u) == _match_url_against_patterns(u, config.blacklist)
is_whitelisted(u) == _match_url_against_patterns(u, config.whitelist)

IsProperLabelSuffix(orig, cand) ==
  /\ Len(cand) > Len(orig)
  /\ SubSeq(cand, Len(cand) - Len(orig) + 1, Len(cand)) = orig

\* _registrable_domain_or: eTLD+1, else the host minus a leading www.
_registrable_domain_or(host) ==
  IF Len(host) >= 2 THEN SubSeq(host, Len(host) - 1, Len(host))
  ELSE IF host # <<>> /\ host[1] = "www" THEN Tail(host) ELSE host

_is_same_domain_blocked(cand, orig) ==
  IF config.same_domain_policy = "follow" THEN FALSE
  ELSE IF config.same_domain_policy = "no-self-domain" THEN cand = orig
  ELSE IF config.use_registrable_domain
    THEN _registrable_domain_or(cand) = _registrable_domain_or(orig)
  ELSE cand = orig \/ IsProperLabelSuffix(orig, cand)

\* href="" as urlparse returns it
EmptyHref == Url("", <<>>, <<>>, "")

\* href = el.get("href"); if not href: continue
HasHref(el) == el.href # EmptyHref

OutlinksFull_OffByOne(out) == Len(out) > config.max_outlinks

\* if len(out) >= cfg.max_outlinks: break
OutlinksFull(out) == Len(out) >= config.max_outlinks

\* one iteration of the loop of queue_candidates_from_origin: TRUE when the
\* element survives every gate
OriginCandidateOk(current_url, origin_url, el, queued_set, visited_set, out) ==
  LET resolved == urljoin(current_url, el.href)
      norm == normalize_url(resolved)
  IN /\ HasHref(el)
     /\ ~_is_asset_rel(el)
     /\ is_fetchable_url(norm)
     /\ ~(config.only_whitelist /\ ~is_whitelisted(norm))
     /\ ~(~config.only_whitelist /\ is_blacklisted(norm))
     /\ is_probably_html_url(resolved)
     /\ ~_is_same_domain_blocked(_netloc(norm), _netloc(origin_url))
     /\ norm \notin visited_set
     /\ norm \notin queued_set
     /\ norm \notin SeqToSet(out)

RECURSIVE OriginLoop(_, _, _, _, _, _, _)
OriginLoop(current_url, origin_url, elements, i, queued_set, visited_set, out) ==
  IF i > Len(elements) \/ OutlinksFull(out) THEN out
  ELSE OriginLoop(current_url, origin_url, elements, i + 1, queued_set, visited_set,
         IF OriginCandidateOk(current_url, origin_url, elements[i],
                              queued_set, visited_set, out)
           THEN Append(out, normalize_url(urljoin(current_url, elements[i].href)))
           ELSE out)

queue_candidates_from_origin(current_url, origin_url, elements, already_queued, visited) ==
  OriginLoop(current_url, origin_url, elements, 1, already_queued, visited, <<>>)

PivotCandidateOk(current_url, origin_url, el, queued_set, visited_set, out) ==
  LET resolved == normalize_url(urljoin(current_url, el.href))
  IN /\ HasHref(el)
     /\ ~_is_asset_rel(el)
     /\ is_fetchable_url(resolved)
     /\ ~(config.only_whitelist /\ ~is_whitelisted(resolved))
     /\ ~(~config.only_whitelist /\ is_blacklisted(resolved))
     /\ is_probably_html_url(resolved)
     /\ ~(resolved = origin_url \/ _netloc(resolved) = _netloc(origin_url))
     /\ resolved \notin visited_set
     /\ resolved \notin queued_set
     /\ resolved \notin SeqToSet(out)

RECURSIVE PivotLoop(_, _, _, _, _, _, _)
PivotLoop(current_url, origin_url, elements, i, queued_set, visited_set, out) ==
  IF i > Len(elements) \/ OutlinksFull(out) THEN out
  ELSE PivotLoop(current_url, origin_url, elements, i + 1, queued_set, visited_set,
         IF PivotCandidateOk(current_url, origin_url, elements[i],
                             queued_set, visited_set, out)
           THEN Append(out, normalize_url(urljoin(current_url, elements[i].href)))
           ELSE out)

queue_candidates_from_pivot(current_url, origin_url, elements, already_queued, visited) ==
  PivotLoop(current_url, origin_url, elements, 1, already_queued, visited, <<>>)

NoTag == [tag |-> "none", href |-> Url("", <<>>, <<>>, ""), rel |-> {}]

\* detect_backlink_element: the first element with an href whose resolved,
\* normalized href is fetchable and equals the normalized target
detect_backlink_element(current_url, origin_url, elements) ==
  LET norm_origin == normalize_url(origin_url)
      hits == {i \in 1..Len(elements) :
                 LET resolved == normalize_url(urljoin(current_url, elements[i].href))
                 IN /\ HasHref(elements[i])
                    /\ is_fetchable_url(resolved)
                    /\ resolved = norm_origin}
  IN IF hits = {} THEN NoTag
     ELSE elements[CHOOSE i \in hits : \A j \in hits : i <= j]

\* classify_backlink: (kind, classification)
classify_backlink(tag) ==
  IF "me" \in _rel_list(tag)
    THEN [kind |-> "rel-me", classification |-> "strong"]
    ELSE [kind |-> "backlink", classification |-> "weak"]

NoNotes == [pivot |-> <<>>, chain |-> <<>>]

make_evidence_Swapped(source_url, origin_url, hops, tag, ordinal) ==
  [id |-> <<"e-backlink", ordinal>>,
   kind |-> classify_backlink(tag).kind,
   source |-> [url |-> normalize_url(source_url), context |-> "origin-page"],
   target |-> [url |-> normalize_url(origin_url), context |-> "candidate-page"],
   link |-> [present |-> TRUE, rel |-> _rel_list(tag),
             nofollow |-> "nofollow" \in _rel_list(tag)],
   classification |-> classify_backlink(tag).classification,
   hops |-> hops,
   notes |-> NoNotes]

make_evidence(source_url, origin_url, hops, tag, ordinal) ==
  [id |-> <<"e-backlink", ordinal>>,
   kind |-> classify_backlink(tag).kind,
   source |-> [url |-> normalize_url(origin_url), context |-> "origin-page"],
   target |-> [url |-> normalize_url(source_url), context |-> "candidate-page"],
   link |-> [present |-> TRUE, rel |-> _rel_list(tag),
             nofollow |-> "nofollow" \in _rel_list(tag)],
   classification |-> classify_backlink(tag).classification,
   hops |-> hops,
   notes |-> NoNotes]

make_indirect_evidence_ChainSwapped(origin_url, pivot_url, neighbor_url, hops, ordinal) ==
  [id |-> <<"e-indirect", ordinal>>,
   kind |-> "backlink",
   source |-> [url |-> normalize_url(origin_url), context |-> "origin-page"],
   target |-> [url |-> normalize_url(neighbor_url), context |-> "candidate-page"],
   link |-> [present |-> FALSE, rel |-> {}, nofollow |-> FALSE],
   classification |-> "indirect",
   hops |-> hops,
   notes |-> [pivot |-> <<normalize_url(pivot_url)>>,
              chain |-> <<normalize_url(origin_url), normalize_url(neighbor_url),
                          normalize_url(pivot_url)>>]]

make_indirect_evidence(origin_url, pivot_url, neighbor_url, hops, ordinal) ==
  [id |-> <<"e-indirect", ordinal>>,
   kind |-> "backlink",
   source |-> [url |-> normalize_url(origin_url), context |-> "origin-page"],
   target |-> [url |-> normalize_url(neighbor_url), context |-> "candidate-page"],
   link |-> [present |-> FALSE, rel |-> {}, nofollow |-> FALSE],
   classification |-> "indirect",
   hops |-> hops,
   notes |-> [pivot |-> <<normalize_url(pivot_url)>>,
              chain |-> <<normalize_url(origin_url), normalize_url(pivot_url),
                          normalize_url(neighbor_url)>>]]


\* ------------------------------------------------------------------------
\* crawler.py: the scheduler helpers of crawl()
\* ------------------------------------------------------------------------
\* Crawler._enqueue
_enqueue(s, raw_url, hops) ==
  LET url == normalize_url(raw_url)
  IN IF url \in s.visited_urls THEN s
     ELSE IF url \in s.scheduled_urls THEN s
     ELSE [s EXCEPT !.queue = Append(@, Item(url, hops)),
                    !.queued_urls = @ \cup {Item(url, hops)},
                    !.enq_log = Append(@, url)]

\* crawl.ensure_domain_structs
ensure_domain_structs(s, key) ==
  IF key \in DOMAIN s.domain_sems THEN s
  ELSE [s EXCEPT !.domain_sems = (key :> [value |-> 1, waiters |-> <<>>]) @@ @,
                 !.waiting_by_domain = (key :> <<>>) @@ @,
                 !.domain_keys = Append(@, key)]

\* crawl.start_task: create the task (its first step is put on the ready
\* queue by create_task) and register the completion callback
\* (`by` records the caller: drain, promote or done_cb)
start_task(s, url, hops, by) ==
  LET tid == Len(s.tasks) + 1
  IN [s EXCEPT !.scheduled_urls = @ \cup {url},
               !.tasks = Append(@, [url |-> url, hops |-> hops, pc |-> "created",
                                    outcome |-> "none", by |-> by]),
               !.in_flight = @ \cup {tid},
               !.ready = Append(@, StepHandle(tid))]

GlobalCapacity_Unbounded(s) == TRUE

\* len(in_flight) < max_global
GlobalCapacity(s) == Cardinality(s.in_flight) < config.max_global_concurrency

\* url in self.visited_urls or url in self._scheduled_urls
AlreadyHandled(s, url) == url \in s.visited_urls \/ url \in s.scheduled_urls

\* crawl.drain_global_queue; returns the new state and the number started
RECURSIVE drain_global_queue(_, _)
drain_global_queue(s, started) ==
  IF s.queue = <<>> \/ ~GlobalCapacity(s) THEN [s |-> s, started |-> started]
  ELSE LET item == Head(s.queue)
           s1 == [s EXCEPT !.queue = Tail(@), !.queued_urls = @ \ {item}]
           key == _domain_group(item.url, config.use_registrable_domain)
           s2 == ensure_domain_structs(s1, key)
       IN IF AlreadyHandled(s1, item.url) THEN drain_global_queue(s1, started)
          ELSE IF Locked(s2.domain_sems[key])
            THEN drain_global_queue(
                   [s2 EXCEPT !.waiting_by_domain[key] = Append(@, item)], started)
          ELSE drain_global_queue(start_task(s2, item.url, item.hops, "drain"), started + 1)

\* the inner while loop of promote_waiting for one domain
RECURSIVE PromoteDomain(_, _, _)
PromoteDomain(s, key, started) ==
  IF s.waiting_by_domain[key] = <<>> \/ Locked(s.domain_sems[key]) \/ ~GlobalCapacity(s)
    THEN [s |-> s, started |-> started]
  ELSE LET item == Head(s.waiting_by_domain[key])
           s1 == [s EXCEPT !.waiting_by_domain[key] = Tail(@)]
       IN IF AlreadyHandled(s1, item.url) THEN PromoteDomain(s1, key, started)
          ELSE PromoteDomain(start_task(s1, item.url, item.hops, "promote"), key, started + 1)

\* the for loop of promote_waiting over list(waiting_by_domain.items())
RECURSIVE PromoteKeys(_, _, _, _)
PromoteKeys(s, keys, i, started) ==
  IF i > Len(keys) THEN [s |-> s, started |-> started]
  ELSE IF s.waiting_by_domain[keys[i]] = <<>> \/ ~GlobalCapacity(s)
    THEN PromoteKeys(s, keys, i + 1, started)
  ELSE LET r == PromoteDomain(s, keys[i], started)
       IN PromoteKeys(r.s, keys, i + 1, r.started)

\* crawl.promote_waiting
promote_waiting(s) ==
  IF ~GlobalCapacity(s) THEN [s |-> s, started |-> 0]
  ELSE PromoteKeys(s, s.domain_keys, 1, 0)

AnyWaiting(s) == \E k \in DOMAIN s.waiting_by_domain : s.waiting_by_domain[k] # <<>>

\* the main scheduling loop of crawl(), run until it sleeps on queue_event
\* or leaves the loop (the finally block then finds in_flight empty)
RECURSIVE SchedulerLoop(_)
SchedulerLoop(s) ==
  IF ~(s.in_flight # {} \/ s.queue # <<>> \/ AnyWaiting(s))
    THEN [s EXCEPT !.main_pc = "returned"]
  ELSE LET d == IF s.queue # <<>> THEN drain_global_queue(s, 0)
                ELSE [s |-> s, started |-> 0]
           p == promote_waiting(d.s)
       IN IF d.started > 0 \/ p.started > 0 THEN SchedulerLoop(p.s)
          ELSE [p.s EXCEPT !.queue_event = FALSE, !.main_pc = "waiting"]

\* crawl() from its first line to its first suspension: bootstrap, then loop
Bootstrap(s) ==
  LET s0 == [s EXCEPT !.queued_urls = SeqToSet(s.queue)]
  IN SchedulerLoop(promote_waiting(drain_global_queue(s0, 0).s).s)


\* ------------------------------------------------------------------------
\* crawler.py: one task, run_one -> _process_url -> _fetch_and_parse
\* ------------------------------------------------------------------------
TaskKey(s, t) == _domain_group(s.tasks[t].url, config.use_registrable_domain)

\* the end of run_one: finally queue_event.set(), leave `async with sem`,
\* the task completes and its done callback is put on the ready queue
Finish(s, t) ==
  LET s1 == EventSet(s)
      s2 == Release(s1, TaskKey(s, t))
  IN [s2 EXCEPT !.tasks[t].pc = "finished",
                !.ready = Append(@, DoneHandle(t))]

\* for url in next_candidates: self._enqueue(url, hops + 1)
RECURSIVE EnqueueAll(_, _, _, _)
EnqueueAll(s, urls, i, hops) ==
  IF i > Len(urls) THEN s
  ELSE EnqueueAll(_enqueue(s, urls[i], hops), urls, i + 1, hops)

ParentUnset_Always(s, c) == TRUE

\* if c not in self.parent
ParentUnset(s, c) == c \notin DOMAIN s.parent

\* for c in next_neighbors: first writer of parent[c] wins; enqueue c
RECURSIVE FanOut(_, _, _, _, _)
FanOut(s, pivot, urls, i, hops) ==
  IF i > Len(urls) THEN s
  ELSE LET c == urls[i]
           s1 == IF ParentUnset(s, c)
                   THEN [s EXCEPT !.parent = (c :> pivot) @@ @] ELSE s
       IN FanOut(_enqueue(s1, c, hops), pivot, urls, i + 1, hops)

QueuedUrlSet(s) == {it.url : it \in s.queued_urls}

NextOrdinal_PerPage(s) == Cardinality(s.evidence_producing_urls) + 1

\* ordinal=len(self.evidence) + 1
NextOrdinal(s) == Len(s.evidence) + 1

RelMeFilter_Off(tag) == tag

\* only_rel_me: a detected backlink without rel=me is discarded
RelMeFilter(tag) ==
  IF tag # NoTag /\ config.only_rel_me /\ "me" \notin _rel_list(tag)
    THEN NoTag ELSE tag

BacklinkAccepted_Always(tag) == TRUE

\* if tag is not None: (after the only_rel_me filter)
BacklinkAccepted(tag) == tag # NoTag

\* _process_url, origin page: enqueue the A -> B candidates
ProcessOriginPage(s, current_url, hops, elements) ==
  EnqueueAll(s,
    queue_candidates_from_origin(current_url, normalized_origin_url, elements,
                                 QueuedUrlSet(s), s.visited_urls),
    1, hops + 1)

\* _process_url, direct part: evidence for B -> A, then the B -> C fan-out
ProcessDirect(s, current_url, hops, elements) ==
  LET tag == RelMeFilter(
               detect_backlink_element(current_url, normalized_origin_url, elements))
  IN IF ~BacklinkAccepted(tag) THEN s
     ELSE LET ev == make_evidence(current_url, normalized_origin_url, hops, tag,
                                  NextOrdinal(s))
              s1 == [s EXCEPT !.evidence = Append(@, ev),
                              !.evidence_producing_urls = @ \cup {current_url},
                              !.pivot_has_backlink_to_origin = @ \cup {current_url}]
              next_neighbors ==
                queue_candidates_from_pivot(current_url, normalized_origin_url,
                                            elements, QueuedUrlSet(s1), s1.visited_urls)
           IN IF next_neighbors = <<>> THEN s1
              ELSE FanOut(
                     [s1 EXCEPT !.pivot_outlinked =
                        (current_url :>
                           ((IF current_url \in DOMAIN @ THEN @[current_url] ELSE {})
                            \cup SeqToSet(next_neighbors))) @@ @],
                     current_url, next_neighbors, 1, hops + 1)

\* pivot_url in self.pivot_has_backlink_to_origin
PivotConfirmed(s, pivot_url) == pivot_url \in s.pivot_has_backlink_to_origin

\* _process_url, indirect part: C <-> B for the recorded parent B of C
ProcessIndirect(s, current_url, hops, elements) ==
  IF current_url \notin DOMAIN s.parent THEN s
  ELSE LET pivot_url == s.parent[current_url]
           tag_to_pivot == detect_backlink_element(current_url, pivot_url, elements)
       IN IF tag_to_pivot # NoTag /\ PivotConfirmed(s, pivot_url) /\ ~config.only_rel_me
            THEN [s EXCEPT !.evidence =
                     Append(@, make_indirect_evidence(normalized_origin_url, pivot_url,
                                                      current_url, hops, NextOrdinal(s))),
                           !.evidence_producing_urls = @ \cup {current_url}]
          ELSE s

\* _process_url after the soup was obtained
ProcessPage(s, t) ==
  LET current_url == s.tasks[t].url
      hops == s.tasks[t].hops
      elements == extract_href_elements(config.web[current_url])
  IN IF current_url = normalized_origin_url
       THEN ProcessOriginPage(s, current_url, hops, elements)
     ELSE ProcessIndirect(ProcessDirect(s, current_url, hops, elements),
                          current_url, hops, elements)

VisitedGate_Absent(s, url) == FALSE

\* if url in self.visited_urls: return None
VisitedGate(s, url) == url \in s.visited_urls

\* the cache holds a 200 text/html entry with a body for url
CacheHit(s, url) == config.cache_enabled /\ url \in s.cache

\* _fetch_and_parse up to the network GET (or through a cache hit)
FetchAndParse(s, t) ==
  LET url == s.tasks[t].url
      hops == s.tasks[t].hops
      s1 == [s EXCEPT !.visited_urls = @ \cup {url}]
  IN IF ~is_fetchable_url(url) THEN Finish(s, t)
     ELSE IF ~is_probably_html_url(url) THEN Finish(s, t)
     ELSE IF VisitedGate(s, url) THEN Finish(s, t)
     ELSE IF CacheHit(s1, url)
       THEN Finish(ProcessPage(
              [s1 EXCEPT !.fetch_log = Append(@, [url |-> url, hops |-> hops,
                                                  via |-> "cache", t |-> t])], t), t)
     ELSE [s1 EXCEPT !.fetch_log = Append(@, [url |-> url, hops |-> hops,
                                              via |-> "network", t |-> t]),
                     !.tasks[t].pc = "net_wait"]

HopLimitReached_OffByOne(hops) == hops > config.max_hops

\* if hops >= max_hops: return
HopLimitReached(hops) == hops >= config.max_hops

BlacklistGate_Absent(url) == FALSE

\* if is_blacklisted(current_url, cfg): return
BlacklistGate(url) == is_blacklisted(url)

\* _process_url up to its first suspension
ProcessUrl(s, t) ==
  IF BlacklistGate(s.tasks[t].url) THEN Finish(s, t)
  ELSE IF HopLimitReached(s.tasks[t].hops) THEN Finish(s, t)
  ELSE FetchAndParse(s, t)

\* run_one: first step of a task, up to `async with sem`
RunOne(s, t) ==
  LET key == TaskKey(s, t)
      s1 == ensure_domain_structs(s, key)
  IN IF ~Locked(s1.domain_sems[key])
       THEN ProcessUrl([s1 EXCEPT !.domain_sems[key].value = @ - 1,
                                  !.tasks[t].pc = "processing",
                                  !.begin_log = Append(@, t)], t)
     ELSE [s1 EXCEPT !.domain_sems[key].waiters = Append(@, t),
                     !.tasks[t].pc = "sem_wait"]

\* Semaphore.acquire after its future was resolved, then _process_url
SemGranted(s, t) ==
  LET key == TaskKey(s, t)
      s1 == [s EXCEPT !.domain_sems[key].waiters =
                         SelectSeq(@, LAMBDA w : w # t),
                      !.tasks[t].pc = "processing",
                      !.begin_log = Append(@, t)]
      s2 == IF s1.domain_sems[key].value > 0 THEN WakeUpNext(s1, key) ELSE s1
  IN ProcessUrl(s2, t)

FetchFailed_Twice(s, msg) ==
  [s EXCEPT !.errors = Append(Append(@, msg), msg)]

\* except httpx.HTTPStatusError / httpx.RequestError: self.errors.append(msg)
FetchFailed(s, msg) == [s EXCEPT !.errors = Append(@, msg)]

\* _fetch_and_parse after `await self._client.get(url)` returned or raised
FetchReturned(s, t) ==
  LET url == s.tasks[t].url
      outcome == s.tasks[t].outcome
      s0 == [s EXCEPT !.tasks[t].pc = "processing"]
  IN IF outcome = "http_error"
       THEN Finish(FetchFailed(s0, <<"HTTP error for", url>>), t)
     ELSE IF outcome = "network_error"
       THEN Finish(FetchFailed(s0, <<"Network error fetching", url>>), t)
     ELSE IF outcome = "non_html" THEN Finish(s0, t)
     ELSE IF outcome = "unexpected"
       THEN Finish(FetchFailed(s0, <<"Error parsing", url>>), t)
     ELSE Finish(ProcessPage(
            [s0 EXCEPT !.cache = IF config.cache_enabled THEN @ \cup {url} ELSE @], t), t)

\* start_task._done_cb
_done_cb(s, t) ==
  LET u == s.tasks[t].url
      key == _domain_group(u, config.use_registrable_domain)
      s1 == [s EXCEPT !.in_flight = @ \ {t},
                      !.scheduled_urls = @ \ {u},
                      !.tasks[t].pc = "closed"]
      s2 == IF /\ key \in DOMAIN s1.waiting_by_domain
               /\ s1.waiting_by_domain[key] # <<>>
               /\ ~Locked(s1.domain_sems[key])
              THEN LET nxt == Head(s1.waiting_by_domain[key])
                   IN start_task([s1 EXCEPT !.waiting_by_domain[key] = Tail(@)],
                                 nxt.url, nxt.hops, "done_cb")
            ELSE s1
  IN EventSet(s2)


\* ------------------------------------------------------------------------
\* Initial state (after Crawler.__aenter__) and the steps of the event loop
\* ------------------------------------------------------------------------
EmptyMap == [x \in {} |-> {}]

\* no library function was called on its own
NoCall == [fn |-> "none"]

\* Crawler.__aenter__: seed the BFS queue
InitialQueue(cfg) ==
  IF cfg.seed_urls # <<>>
    THEN [i \in 1..Len(cfg.seed_urls) |-> Item(normalize_url(cfg.seed_urls[i]), 1)]
    ELSE <<Item(normalize_url(cfg.origin_url), 0)>>

InitialVisited_Empty(cfg) == {}

InitialVisited(cfg) ==
  IF cfg.seed_urls # <<>> THEN {normalize_url(cfg.origin_url)} ELSE {}

\* the Crawler object after `async with Crawler(...)` for one of the
\* configurations
InitCrawler(cfgs) ==
  /\ config \in cfgs
  /\ queue = InitialQueue(config)
  /\ visited_urls = InitialVisited(config)
  /\ evidence_producing_urls = {}
  /\ evidence = <<>>
  /\ errors = <<>>
  /\ parent = EmptyMap
  /\ pivot_has_backlink_to_origin = {}
  /\ pivot_outlinked = EmptyMap
  /\ scheduled_urls = {}
  /\ queued_urls = {}
  /\ domain_sems = EmptyMap
  /\ waiting_by_domain = EmptyMap
  /\ domain_keys = <<>>
  /\ in_flight = {}
  /\ tasks = <<>>
  /\ ready = <<MainHandle>>
  /\ queue_event = FALSE
  /\ main_pc = "start"
  /\ cache = config.cache_init
  /\ fetch_log = <<>>
  /\ enq_log = [i \in 1..Len(InitialQueue(config)) |-> InitialQueue(config)[i].url]
  /\ begin_log = <<>>

\* no FileCache object was built on its own
NoFileCache == [cfg |-> "none"]

\* the state after `async with Crawler(...)`
InitWith(cfgs) ==
  /\ InitCrawler(cfgs)
  /\ call = NoCall
  /\ ret = NoCall
  /\ file_cache = NoFileCache
  /\ now = 0

Init == InitWith(Configs)

HeadIs(kind) == ready # <<>> /\ Head(ready).kind = kind

Popped == [State EXCEPT !.ready = Tail(@)]

\* the caller awaits crawler.crawl()
CrawlStart ==
  /\ HeadIs("main")
  /\ main_pc = "start"
  /\ Adopt(Bootstrap(Popped))

\* crawl() resumes after queue_event.wait()
SchedulerWake ==
  /\ HeadIs("main")
  /\ main_pc = "woken"
  /\ Adopt(SchedulerLoop(Popped))

\* first step of a task created by start_task
TaskStart ==
  /\ HeadIs("step")
  /\ tasks[Head(ready).t].pc = "created"
  /\ Adopt(RunOne(Popped, Head(ready).t))

\* a task that waited for its domain semaphore resumes
TaskAcquired ==
  /\ HeadIs("step")
  /\ tasks[Head(ready).t].pc = "sem_granted"
  /\ Adopt(SemGranted(Popped, Head(ready).t))

\* a task whose GET completed resumes
TaskFetched ==
  /\ HeadIs("step")
  /\ tasks[Head(ready).t].pc = "net_done"
  /\ Adopt(FetchReturned(Popped, Head(ready).t))

\* the completion callback of a finished task runs
TaskDone ==
  /\ HeadIs("done_cb")
  /\ Adopt(_done_cb(Popped, Head(ready).t))

Outcomes(url) ==
  (IF url \in DOMAIN config.web THEN {"ok", "http_error", "non_html"}
   ELSE {"http_error", "network_error"})
  \cup (IF url \in config.raising THEN {"unexpected"} ELSE {})

\* the network answers a pending GET: the waiting task becomes ready
NetworkResponse ==
  \E t \in 1..Len(tasks) : \E o \in Outcomes(tasks[t].url) :
    /\ tasks[t].pc = "net_wait"
    /\ tasks' = [tasks EXCEPT ![t].pc = "net_done", ![t].outcome = o]
    /\ ready' = Append(ready, StepHandle(t))
    /\ UNCHANGED <<config, queue, visited_urls, evidence_producing_urls, evidence,
                   errors, parent, pivot_has_backlink_to_origin, pivot_outlinked,
                   scheduled_urls, queued_urls, domain_sems, waiting_by_domain,
                   domain_keys, in_flight, queue_event, main_pc, cache, fetch_log,
                   enq_log, begin_log, call, ret, file_cache, now>>

Next ==
  \/ CrawlStart
  \/ SchedulerWake
  \/ TaskStart
  \/ TaskAcquired
  \/ TaskFetched
  \/ TaskDone
  \/ NetworkResponse

Spec == Init /\ [][Next]_vars

\* the same crawler on a web whose hosts receive URLs from several pages
OrderInit == InitWith(OrderConfigs)

OrderSpec == OrderInit /\ [][Next]_vars

\* the same crawler under allow/deny policies
PolicyInit == InitWith(PolicyConfigs)

PolicySpec == PolicyInit /\ [][Next]_vars

\* the same crawler when the handling of a response raises
FaultInit == InitWith(FaultConfigs)

FaultSpec == FaultInit /\ [][Next]_vars

\* the same crawler in only_whitelist mode
WhitelistInit == InitWith(WhitelistConfigs)

WhitelistSpec == WhitelistInit /\ [][Next]_vars

\* the same crawler when two pivots race for a common neighbor
RaceInit == InitWith(RaceConfigs)

RaceSpec == RaceInit /\ [][Next]_vars

\* the same crawler over a cache that holds pages of the web
CachedInit == InitWith(CachedConfigs)

CachedSpec == CachedInit /\ [][Next]_vars

TypeOK ==
  /\ main_pc \in {"start", "waiting", "woken", "returned"}
  /\ \A i \in 1..Len(tasks) :
       tasks[i].pc \in {"created", "sem_wait", "sem_granted", "processing",
                        "net_wait", "net_done", "finished", "closed"}


\* ------------------------------------------------------------------------
\* scoring.py
\* ------------------------------------------------------------------------
StrongCoefficient_PEP == 60

\* score = int(85 * s + 50 * w + 10 * i - penalties)
StrongCoefficient == 85
WeakCoefficient == 50
IndirectCoefficient == 10

WeakSaturation_PEP == 3

\* w = min(1.0, weak_count / 2.0); i = min(1.0, indirect_count / 5.0)
WeakSaturation == 2
IndirectSaturation == 5

Min(a, b) == IF a <= b THEN a ELSE b
Max(a, b) == IF a >= b THEN a ELSE b

\* sum(1 for ev in evidence if ev.classification == c)
RECURSIVE CountClass(_, _)
CountClass(ev, c) ==
  IF ev = <<>> THEN 0
  ELSE (IF Head(ev).classification = c THEN 1 ELSE 0) + CountClass(Tail(ev), c)

\* the common denominator of the three signal strengths
SignalUnit == WeakSaturation * IndirectSaturation

\* scoring.calculate_score; the signal strengths s, w, i are kept as
\* multiples of 1/SignalUnit, int() truncates the (non-negative) sum
calculate_score(ev) ==
  LET strong_count == CountClass(ev, "strong")
      weak_count == CountClass(ev, "weak")
      indirect_count == CountClass(ev, "indirect")
      penalties == 0
      s == Min(SignalUnit, strong_count * SignalUnit)
      w == Min(SignalUnit, weak_count * (SignalUnit \div WeakSaturation))
      i == Min(SignalUnit, indirect_count * (SignalUnit \div IndirectSaturation))
      raw == (StrongCoefficient * s + WeakCoefficient * w + IndirectCoefficient * i
              - penalties * SignalUnit) \div SignalUnit
      score == Max(0, Min(100, raw))
  IN [score |-> score,
      label |-> IF score >= 80 THEN "high"
                ELSE IF score >= 50 THEN "medium" ELSE "low"]

\* ------------------------------------------------------------------------
\* The library functions called on their own, on inputs from small sets
\* ------------------------------------------------------------------------
\* evidence lists handed to calculate_score hold at most MaxEvidence records
MaxEvidence == 7
\* on pages whose outlinks are truncated, max_outlinks is drawn from
\* 0..MaxOutlinksCfg
MaxOutlinksCfg == 2

Classifications == {"strong", "weak", "indirect"}

hOrigin == <<"origin", "example">>
hSubOrigin == <<"sub", "origin", "example">>
hOther == <<"other", "example">>
hGithub == <<"github", "com">>

Pivot_url == PageAt(hOther, <<"/", "p">>)

\* github.com/sponsors/* as it is written in the default blacklist, and in
\* other letter case
Pat_Sponsors == <<"github", ".", "com", "/", "sponsors", "/", "*">>
Pat_Sponsors_Upper == <<"GitHub", ".", "com", "/", "Sponsors", "/", "*">>

\* URLs handed to normalize_url and to the pattern matcher
UrlInputs ==
  {UrlQ(sch, host, path, q, frag) :
     sch \in {"https", "HTTP"},
     host \in {hGithub, <<"GitHub", "com">>, hOther},
     path \in {<<>>, <<"/">>, <<"/", "sponsors">>, <<"/", "Sponsors", "/">>,
               <<"/", "sponsors", "/", "pypa">>, <<"/", "pypa", "/", "pip">>,
               <<"/", "pypa", "/", "sponsors">>, <<"/", "sponsorship">>,
               <<"/", "sponsors", "/", "/">>, <<"/", "/">>,
               <<"/", "/", "sponsors", "/", "pypa">>},
     q \in {"", "Q=1"},
     frag \in {"", "frag"}}

\* the links a page handed to the candidate selection can hold, in page order
LinkPool ==
  <<Anchor(PageAt(hOrigin, <<"/", "self">>), {}),
    Anchor(PageAt(hSubOrigin, <<"/", "child">>), {}),
    Anchor(PageAt(hOther, <<"/", "x">>), {}),
    Anchor(PageAt(hGithub, <<"/", "sponsors", "/", "pypa">>), {}),
    Anchor(PageAt(hGithub, <<"/", "pypa", "/", "pip">>), {}),
    Anchor(UrlQ("HTTPS", <<"GitHub", "com">>, <<"/", "Sponsors", "/">>, "Q=1", "frag"), {"me"}),
    Anchor(Url("", <<>>, <<"/", "rel">>, ""), {})>>

LibConfigs ==
  [web : {Web_Chain},
   origin_url : {PageAt(hOrigin, <<"/">>)},
   seed_urls : {<<>>},
   max_global_concurrency : {1},
   max_hops : {3},
   max_outlinks : {50},
   only_rel_me : {FALSE},
   use_registrable_domain : BOOLEAN,
   same_domain_policy : {"follow", "no-self-domain", "no-self-domain-or-subdomain"},
   blacklist : {{}, {Pat_Sponsors}, {Pat_Sponsors_Upper}},
   whitelist : {{}},
   only_whitelist : {FALSE},
   raising : {{}},
   cache_enabled : {TRUE},
   cache_init : {{}}]

LibInit == InitWith(LibConfigs)

\* configurations whose max_outlinks is smaller than the number of links
\* of a page
OutlinkConfigs ==
  [web : {Web_Chain},
   origin_url : {PageAt(hOrigin, <<"/">>)},
   seed_urls : {<<>>},
   max_global_concurrency : {1},
   max_hops : {3},
   max_outlinks : 0..MaxOutlinksCfg,
   only_rel_me : {FALSE},
   use_registrable_domain : {FALSE},
   same_domain_policy : {"follow", "no-self-domain", "no-self-domain-or-subdomain"},
   blacklist : {{Pat_Sponsors}},
   whitelist : {{}},
   only_whitelist : {FALSE},
   raising : {{}},
   cache_enabled : {TRUE},
   cache_init : {{}}]

OutlinkInit == InitWith(OutlinkConfigs)

\* a crawler that is not running, and a FileCache built from its own
\* configuration
IdleConfigs ==
  {c \in LibConfigs : /\ c.same_domain_policy = "follow"
                      /\ ~c.use_registrable_domain
                      /\ c.blacklist = {}}

CrawlerVars ==
  <<config, queue, visited_urls, evidence_producing_urls, evidence, errors,
    parent, pivot_has_backlink_to_origin, pivot_outlinked, scheduled_urls,
    queued_urls, domain_sems, waiting_by_domain, domain_keys, in_flight, tasks,
    ready, queue_event, main_pc, cache, fetch_log, enq_log, begin_log>>

\* normalize_url(u)
CallNormalize ==
  /\ call = NoCall
  /\ \E u \in UrlInputs :
    /\ call' = [fn |-> "normalize_url", u |-> u]
    /\ ret' = [url |-> normalize_url(u)]
    /\ UNCHANGED <<CrawlerVars, file_cache, now>>

\* is_blacklisted(u, cfg)
CallIsBlacklisted ==
  /\ call = NoCall
  /\ \E u \in UrlInputs :
    /\ call' = [fn |-> "is_blacklisted", u |-> u]
    /\ ret' = [matched |-> is_blacklisted(u)]
    /\ UNCHANGED <<CrawlerVars, file_cache, now>>

\* calculate_score(evidence)
CallScore ==
  /\ call = NoCall
  /\ \E n \in 0..MaxEvidence : \E cls \in [1..n -> Classifications] :
    LET ev == [k \in 1..n |-> [classification |-> cls[k]]]
    IN /\ call' = [fn |-> "calculate_score", evidence |-> ev]
       /\ ret' = calculate_score(ev)
       /\ UNCHANGED <<CrawlerVars, file_cache, now>>

\* the pages handed to the candidate selection: the links of LinkPool
\* picked by `chosen`
PageOf(chosen) == SelectSeq(LinkPool, LAMBDA el : el \in chosen)

\* queue_candidates_from_origin(origin, origin, elements, cfg, queued, visited)
CallOriginCandidates ==
  /\ call = NoCall
  /\ \E chosen \in SUBSET SeqToSet(LinkPool) :
    \E visited \in {{}, {PageAt(hOther, <<"/", "x">>)}} :
      /\ call' = [fn |-> "queue_candidates_from_origin",
                  current_url |-> normalized_origin_url,
                  elements |-> PageOf(chosen), visited |-> visited]
      /\ ret' = [urls |-> queue_candidates_from_origin(
                              normalized_origin_url, normalized_origin_url,
                              extract_href_elements(PageOf(chosen)), {}, visited)]
      /\ UNCHANGED <<CrawlerVars, file_cache, now>>

\* queue_candidates_from_pivot(pivot, pivot, origin, elements, cfg, queued, visited)
CallPivotCandidates ==
  /\ call = NoCall
  /\ \E chosen \in SUBSET SeqToSet(LinkPool) :
    \E visited \in {{}, {PageAt(hOther, <<"/", "x">>)}} :
      /\ call' = [fn |-> "queue_candidates_from_pivot",
                  current_url |-> Pivot_url,
                  elements |-> PageOf(chosen), visited |-> visited]
      /\ ret' = [urls |-> queue_candidates_from_pivot(
                              Pivot_url, normalized_origin_url,
                              extract_href_elements(PageOf(chosen)), {}, visited)]
      /\ UNCHANGED <<CrawlerVars, file_cache, now>>

LibNext ==
  \/ CallNormalize
  \/ CallIsBlacklisted
  \/ CallScore
  \/ CallOriginCandidates
  \/ CallPivotCandidates

LibSpec == LibInit /\ [][LibNext]_vars

\* the same functions under a small max_outlinks
OutlinkSpec == OutlinkInit /\ [][LibNext]_vars

\* ------------------------------------------------------------------------
\* _match_url_against_patterns with patterns that begin with "*."
\* ------------------------------------------------------------------------
hExampleCom == <<"example", "com">>

\* *.example.com, *.example.com/* and *.EXAMPLE.com/
SubdomainPatterns ==
  {<<"*", ".", "example", ".", "com">>,
   <<"*", ".", "example", ".", "com", "/", "*">>,
   <<"*", ".", "EXAMPLE", ".", "com", "/">>}

PatternUrls ==
  {Url(sch, host, path, "") :
     sch \in {"https", "http"},
     host \in {<<"sub", "example", "com">>, <<"a", "b", "example", "com">>,
               hExampleCom, <<"notexample", "com">>, <<"other", "org">>,
               <<"sub", "EXAMPLE", "com">>},
     path \in {<<>>, <<"/">>, <<"/", "p">>, <<"/", "x", ".", "example", ".", "com">>}}

PatternInit == InitWith(IdleConfigs)

\* _match_url_against_patterns(u, [pat])
CallMatchPatterns ==
  /\ call = NoCall
  /\ \E u \in PatternUrls : \E pat \in SubdomainPatterns :
       /\ call' = [fn |-> "_match_url_against_patterns", u |-> u, patterns |-> {pat}]
       /\ ret' = [matched |-> _match_url_against_patterns(u, {pat})]
       /\ UNCHANGED <<CrawlerVars, file_cache, now>>

PatternNext == CallMatchPatterns

PatternSpec == PatternInit /\ [][PatternNext]_vars

\* ------------------------------------------------------------------------
\* detect_backlink_element, called on its own
\* ------------------------------------------------------------------------
\* the elements a page handed to the detection can hold, in document order
DetectPool ==
  <<HeadLink(A_url, {"me"}),
    Anchor(PageAt(hC, <<"/", "x">>), {}),
    Anchor(Url("mailto", <<>>, <<"me">>, ""), {}),
    Anchor(Url("HTTPS", <<"A", "EXAMPLE">>, <<"/">>, "frag"), {}),
    Anchor(EmptyHref, {"me"}),
    Anchor(Url("", <<>>, <<"/">>, ""), {"nofollow"}),
    HeadLink(Url("", hA, <<>>, ""), {})>>

\* the pages the elements are resolved against
DetectPages == {PageAt(hB, <<"/", "dir", "/", "page">>), A_url, PageAt(hA, <<"/", "about">>)}

\* the URLs looked for
DetectTargets == {PageAt(hA, <<"/">>), Url("mailto", <<>>, <<"me">>, "")}

DetectInit == InitWith(IdleConfigs)

\* detect_backlink_element(current_url, origin_url, extract_href_elements(soup))
CallDetect ==
  /\ call = NoCall
  /\ \E chosen \in SUBSET SeqToSet(DetectPool) :
      \E cur \in DetectPages : \E target \in DetectTargets :
        LET soup == SelectSeq(DetectPool, LAMBDA el : el \in chosen)
            elements == extract_href_elements(soup)
        IN /\ call' = [fn |-> "detect_backlink_element", current_url |-> cur,
                       origin_url |-> target, soup |-> soup, elements |-> elements]
           /\ ret' = [tag |-> detect_backlink_element(cur, target, elements)]
           /\ UNCHANGED <<CrawlerVars, file_cache, now>>

DetectNext == CallDetect

DetectSpec == DetectInit /\ [][DetectNext]_vars

\* ------------------------------------------------------------------------
\* FileCache (cache.py) over diskcache.Cache, used on its own
\* ------------------------------------------------------------------------
\* the clock runs from 0 to MaxNow
MaxNow == 3
\* expire_seconds is drawn from 1..MaxExpire
MaxExpire == 2

\* Python's None
None == [none |-> TRUE]

CacheConfigs ==
  [enabled : BOOLEAN, directory : {"nb_cache"},
   expire_seconds : 1..MaxExpire, store_errors : BOOLEAN]

\* diskcache.Cache(directory): an empty store
NewDiskCache(directory) == [directory |-> directory, items |-> <<>>]

FileCache_AlwaysStore(cfg) ==
  [cfg |-> cfg, _cache |-> NewDiskCache(cfg.directory)]

\* FileCache.__init__ (with create_cache_object when enabled)
FileCache(cfg) ==
  [cfg |-> cfg,
   _cache |-> IF ~cfg.enabled THEN None ELSE NewDiskCache(cfg.directory)]

\* `self._cache is None or not self._cache.directory`
CacheDisabled(fc) == fc._cache = None \/ fc._cache.directory = ""

\* diskcache.Cache.get(key): the value of an entry that has not expired
DiskGet(dc, t, key) ==
  IF key \in DOMAIN dc.items /\ dc.items[key].expire_time > t
    THEN dc.items[key].value
    ELSE None

\* diskcache.Cache.set(key, value, expire=seconds)
DiskSet(dc, t, key, value, expire) ==
  [dc EXCEPT !.items =
     [k \in DOMAIN dc.items \cup {key} |->
        IF k = key THEN [value |-> value, expire_time |-> t + expire]
        ELSE dc.items[k]]]

\* FileCache.get
FileCache_get(fc, t, url) ==
  IF CacheDisabled(fc) THEN None ELSE DiskGet(fc._cache, t, url)

\* {k.lower(): v for k, v in headers.items()}
LowerKeys(headers) ==
  [k \in {Lower(x) : x \in DOMAIN headers} |->
     headers[CHOOSE x \in DOMAIN headers : Lower(x) = k]]

set_html_ok_RawContentType(fc, t, url, final_url, status, headers, text, content_type) ==
  IF CacheDisabled(fc) THEN fc
  ELSE IF status # 200 /\ ~fc.cfg.store_errors THEN fc
  ELSE [fc EXCEPT !._cache =
          DiskSet(@, t, url,
                  [final_url |-> final_url, status |-> status,
                   headers |-> LowerKeys(headers), text |-> text,
                   content_type |-> content_type],
                  fc.cfg.expire_seconds)]

\* FileCache.set_html_ok: the FileCache object after the call
set_html_ok(fc, t, url, final_url, status, headers, text, content_type) ==
  IF CacheDisabled(fc) THEN fc
  ELSE IF status # 200 /\ ~fc.cfg.store_errors THEN fc
  ELSE [fc EXCEPT !._cache =
          DiskSet(@, t, url,
                  [final_url |-> final_url, status |-> status,
                   headers |-> LowerKeys(headers), text |-> text,
                   content_type |-> LowerSeq(content_type)],
                  fc.cfg.expire_seconds)]

\* FileCache.clear_all
clear_all(fc) ==
  IF CacheDisabled(fc) THEN fc ELSE [fc EXCEPT !._cache.items = <<>>]

\* FileCache.close: closes the handle of the store, the entries stay
close(fc) == fc

\* "text/html" in content_type
ContainsTextHtml(content_type) ==
  \E i \in 1..Len(content_type) : content_type[i] = "text/html"

CacheUsable_AnyStatus(hit) ==
  hit # None /\ ContainsTextHtml(hit.content_type)

\* Crawler._fetch_and_parse: hit and hit.get("status") == 200 and
\* "text/html" in hit.get("content_type", "")
CacheUsable(hit) ==
  hit # None /\ hit.status = 200 /\ ContainsTextHtml(hit.content_type)

\* the cache lookup of Crawler._fetch_and_parse: the cached text that is
\* parsed instead of a GET, or None when the URL has to be fetched
CacheLookup(fc, t, url) ==
  LET hit == FileCache_get(fc, t, url)
  IN IF CacheUsable(hit) /\ hit.text # "" THEN [text |-> hit.text] ELSE None

\* the URLs used as cache keys
CacheUrls == {B_url, X_url}

\* the responses handed to set_html_ok
Responses ==
  {[status |-> 200, text |-> "<html>ok</html>",
    headers |-> ("Content-Type" :> "Text/HTML; Charset=UTF-8") @@ ("X-RateLimit" :> "10"),
    content_type |-> <<"Text/HTML", ";", "Charset=UTF-8">>],
   [status |-> 200, text |-> "<html>new</html>",
    headers |-> ("content-type" :> "text/html"),
    content_type |-> <<"text/html">>],
   [status |-> 200, text |-> "",
    headers |-> ("content-type" :> "text/html"),
    content_type |-> <<"text/html">>],
   [status |-> 200, text |-> "{}",
    headers |-> ("Content-Type" :> "application/json"),
    content_type |-> <<"application/json">>],
   [status |-> 404, text |-> "not found",
    headers |-> ("Content-Type" :> "text/html"),
    content_type |-> <<"text/html">>],
   [status |-> 500, text |-> "server down",
    headers |-> <<>>,
    content_type |-> <<"Text/HTML">>]}

\* resp.url: X redirects to K
FinalUrl(url) == IF url = X_url THEN K_url ELSE url

CacheInit ==
  /\ InitCrawler(IdleConfigs)
  /\ call = NoCall
  /\ ret = NoCall
  /\ file_cache \in {FileCache(cfg) : cfg \in CacheConfigs}
  /\ now = 0

\* fc.set_html_ok(url, final_url=..., status=..., headers=..., text=...,
\*                content_type=...)
CallSetHtmlOk ==
  \E url \in CacheUrls : \E r \in Responses :
    /\ call' = [fn |-> "set_html_ok", url |-> url, final_url |-> FinalUrl(url),
                status |-> r.status, headers |-> r.headers, text |-> r.text,
                content_type |-> r.content_type]
    /\ file_cache' = set_html_ok(file_cache, now, url, FinalUrl(url), r.status,
                                 r.headers, r.text, r.content_type)
    /\ ret' = None
    /\ UNCHANGED <<CrawlerVars, now>>

\* fc.get(url)
CallGet ==
  \E url \in CacheUrls :
    /\ call' = [fn |-> "get", url |-> url]
    /\ ret' = [hit |-> FileCache_get(file_cache, now, url)]
    /\ UNCHANGED <<CrawlerVars, file_cache, now>>

\* the cache lookup at the head of Crawler._fetch_and_parse
CallCacheLookup ==
  \E url \in CacheUrls :
    /\ call' = [fn |-> "cache lookup", url |-> url]
    /\ ret' = [soup |-> CacheLookup(file_cache, now, url)]
    /\ UNCHANGED <<CrawlerVars, file_cache, now>>

\* fc.clear_all()
CallClearAll ==
  /\ call' = [fn |-> "clear_all"]
  /\ file_cache' = clear_all(file_cache)
  /\ ret' = None
  /\ UNCHANGED <<CrawlerVars, now>>

\* fc.close()
CallClose ==
  /\ call' = [fn |-> "close"]
  /\ file_cache' = close(file_cache)
  /\ ret' = None
  /\ UNCHANGED <<CrawlerVars, now>>

\* a second passes between two calls
TimePasses ==
  /\ now < MaxNow
  /\ now' = now + 1
  /\ call' = [fn |-> "time passes"]
  /\ ret' = None
  /\ UNCHANGED <<CrawlerVars, file_cache>>

CacheNext ==
  \/ CallSetHtmlOk
  \/ CallGet
  \/ CallCacheLookup
  \/ CallClearAll
  \/ CallClose
  \/ TimePasses

CacheSpec == CacheInit /\ [][CacheNext]_vars

\* ------------------------------------------------------------------------
\* crawl_and_score (api.py)
\* ------------------------------------------------------------------------
\* the keyword parameters of `async def crawl_and_score`
ApiParameters ==
  {"seed_urls", "trusted_overrides", "blacklist_overrides", "max_hops"}

\* the keyword options a caller may pass (cli.async_main passes seed_urls,
\* only_whitelist and only_rel_me)
OptionNames ==
  {"seed_urls", "trusted_overrides", "blacklist_overrides",
   "whitelist_overrides", "max_hops", "only_whitelist", "only_rel_me"}

\* the value passed for an option
KwValue(name) ==
  CASE name = "seed_urls" -> <<B_url>>
    [] name = "trusted_overrides" -> <<Pat_A_Host>>
    [] name = "blacklist_overrides" -> <<Pat_C_All>>
    [] name = "whitelist_overrides" -> <<Pat_Any_Example>>
    [] name = "max_hops" -> 2
    [] name = "only_whitelist" -> TRUE
    [] name = "only_rel_me" -> TRUE

\* api._load_config()
_load_config ==
  [max_hops |-> 3, max_redirects |-> 5, max_outlinks |-> 50, timeout |-> 10,
   max_content_bytes |-> 1048576, user_agent |-> "Mozilla/5.0",
   trusted |-> <<>>, blacklist |-> <<Pat_Sponsors>>,
   same_domain_policy |-> "no-self-domain-or-subdomain",
   use_registrable_domain |-> FALSE]

\* "Apply overrides if provided"
ApplyOverrides(cfg, kwargs) ==
  LET c1 == IF "max_hops" \in DOMAIN kwargs
              THEN [cfg EXCEPT !.max_hops = kwargs["max_hops"]] ELSE cfg
      c2 == IF "trusted_overrides" \in DOMAIN kwargs
              THEN [c1 EXCEPT !.trusted = @ \o kwargs["trusted_overrides"]] ELSE c1
  IN IF "blacklist_overrides" \in DOMAIN kwargs
       THEN [c2 EXCEPT !.blacklist = @ \o kwargs["blacklist_overrides"]] ELSE c2

\* what a crawler that started can do: raise out of crawl(), or finish with
\* its evidence and errors
CrawlOutcomes ==
  {[raised |-> TRUE, evidence |-> <<>>, errors |-> <<>>],
   [raised |-> FALSE, evidence |-> <<>>, errors |-> <<>>],
   [raised |-> FALSE, evidence |-> <<>>, errors |-> <<"HTTP error">>],
   [raised |-> FALSE, evidence |-> <<[classification |-> "weak"]>>,
    errors |-> <<"HTTP error">>]}

\* `async with HttpxCrawler(origin_url, config, ...)`: Crawler.__aenter__
\* reads self.config["cache"], a KeyError when the key is missing
HttpxCrawlerStarts(cfg) == "cache" \in DOMAIN cfg

\* `if not evidence:` (stage 2 of crawl_and_score)
FallbackWanted(cfg, ev) == ev = <<>>

FatalEntry(what) == <<"Fatal crawler error", what>>

\* the body of crawl_and_score below its signature; primary and fallback are
\* what the two crawlers do once started
CrawlAndScoreBody(kwargs, primary, fallback) ==
  LET cfg == ApplyOverrides(_load_config, kwargs)
      \* the try block: evidence, errors, fallback started, exception
      stage ==
        IF ~HttpxCrawlerStarts(cfg)
          THEN [evidence |-> <<>>, errors |-> <<>>, fallback_ran |-> FALSE,
                exc |-> "KeyError: cache"]
        ELSE IF primary.raised
          THEN [evidence |-> <<>>, errors |-> <<>>, fallback_ran |-> FALSE,
                exc |-> "crawl"]
        ELSE IF ~FallbackWanted(cfg, primary.evidence)
          THEN [evidence |-> primary.evidence, errors |-> primary.errors,
                fallback_ran |-> FALSE, exc |-> ""]
        ELSE IF fallback.raised
          THEN [evidence |-> <<>>, errors |-> <<>>, fallback_ran |-> TRUE,
                exc |-> "crawl"]
        ELSE [evidence |-> fallback.evidence, errors |-> fallback.errors,
              fallback_ran |-> TRUE, exc |-> ""]
      \* except Exception as e: errors.append(f"Fatal crawler error: {e}")
      errs == IF stage.exc # "" THEN Append(stage.errors, FatalEntry(stage.exc))
              ELSE stage.errors
      scored == calculate_score(stage.evidence)
  IN [raised |-> "none",
      fatal |-> stage.exc # "",
      fallback_ran |-> stage.fallback_ran,
      result |-> [score |-> scored.score, label |-> scored.label,
                  evidence |-> stage.evidence, errors |-> errs]]

\* await crawl_and_score(origin_url, **kwargs): a keyword that is not a
\* parameter is a TypeError of the call
crawl_and_score(kwargs, primary, fallback) ==
  IF ~(DOMAIN kwargs \subseteq ApiParameters)
    THEN [raised |-> "TypeError", fatal |-> FALSE, fallback_ran |-> FALSE,
          result |-> None]
    ELSE CrawlAndScoreBody(kwargs, primary, fallback)

ApiInit ==
  /\ InitCrawler(IdleConfigs)
  /\ call = NoCall
  /\ ret = NoCall
  /\ file_cache = NoFileCache
  /\ now = 0

\* one call of crawl_and_score
CallCrawlAndScore ==
  /\ call = NoCall
  /\ \E passed \in SUBSET OptionNames :
       \E primary \in CrawlOutcomes : \E fallback \in CrawlOutcomes :
         LET kwargs == [n \in passed |-> KwValue(n)]
         IN /\ call' = [fn |-> "crawl_and_score", kwargs |-> kwargs]
            /\ ret' = crawl_and_score(kwargs, primary, fallback)
            /\ UNCHANGED <<CrawlerVars, file_cache, now>>

ApiNext == CallCrawlAndScore

ApiSpec == ApiInit /\ [][ApiNext]_vars

\* ------------------------------------------------------------------------
\* Properties
\* ------------------------------------------------------------------------
TasksOf(url) == {t \in 1..Len(tasks) : tasks[t].url = url}

\* C1: within one crawl no normalized URL passes the pre-fetch gate of
\* _fetch_and_parse (cache lookup or network GET) more than once
C1_NoUrlFetchedTwice ==
  \A i, j \in 1..Len(fetch_log) :
    i # j => fetch_log[i].url # fetch_log[j].url

\* two tasks were run for one URL; one fetched it, the other was stopped
C1_Witness ==
  \E i \in 1..Len(fetch_log) :
    \E t \in TasksOf(fetch_log[i].url) :
      /\ t # fetch_log[i].t
      /\ tasks[t].pc \in {"finished", "closed"}
      /\ tasks[t].hops < config.max_hops


InProcessUrl(t) == tasks[t].pc \in {"processing", "net_wait", "net_done"}

\* the concurrency key as the specification states it
ConcurrencyKey(u) ==
  IF config.use_registrable_domain /\ Len(u.netloc) >= 2
    THEN SubSeq(u.netloc, Len(u.netloc) - 1, Len(u.netloc))
    ELSE u.netloc

\* C2: at every moment at most one task is inside _process_url for each
\* concurrency key (host, or registrable domain when configured)
C2_OneInFlightPerKey ==
  \A t1, t2 \in 1..Len(tasks) :
    (t1 # t2 /\ InProcessUrl(t1) /\ InProcessUrl(t2))
      => ConcurrencyKey(tasks[t1].url) # ConcurrencyKey(tasks[t2].url)

\* a task waits for the semaphore its key's holder owns, the two URLs being
\* on different hosts of one registrable domain
C2_Witness ==
  \E t1, t2 \in 1..Len(tasks) :
    /\ tasks[t1].pc = "net_wait"
    /\ tasks[t2].pc = "sem_wait"
    /\ ConcurrencyKey(tasks[t1].url) = ConcurrencyKey(tasks[t2].url)
    /\ tasks[t1].url.netloc # tasks[t2].url.netloc

\* C3: the in_flight set never holds more than max_global_concurrency tasks
C3_GlobalBound == Cardinality(in_flight) <= config.max_global_concurrency

\* in_flight is full and holds a task started by a completion callback,
\* after the drain and the promotion each started one
C3_Witness ==
  /\ Cardinality(in_flight) = config.max_global_concurrency
  /\ \E t \in in_flight : tasks[t].by = "done_cb"
  /\ \E t \in 1..Len(tasks) : tasks[t].by = "promote"
  /\ \E t \in 1..Len(tasks) : tasks[t].by = "drain"


\* crawl() sleeps on queue_event while nothing is left that could set it:
\* no ready callback and no GET in flight
LostWakeup ==
  /\ main_pc = "waiting"
  /\ ready = <<>>
  /\ \A t \in 1..Len(tasks) : tasks[t].pc # "net_wait"

\* C4: the scheduler never sleeps on its wake event in a state where no
\* in-flight task or completion callback remains to set it, and when
\* crawl() returns the queue, the waiting deques and in_flight are empty
C4_NoLostWakeup ==
  /\ ~LostWakeup
  /\ main_pc = "returned" =>
       (queue = <<>> /\ in_flight = {}
        /\ \A k \in DOMAIN waiting_by_domain : waiting_by_domain[k] = <<>>)

IsDirect(ev) == ev.classification \in {"strong", "weak"}
IsIndirect(ev) == ev.classification = "indirect"

\* C5: every indirect record with pivot B is preceded in the evidence list
\* by a direct (strong or weak) record whose target is B
C5_DirectBeforeIndirect ==
  \A i \in 1..Len(evidence) :
    IsIndirect(evidence[i]) =>
      \E j \in 1..(i - 1) :
        /\ IsDirect(evidence[j])
        /\ <<evidence[j].target.url>> = evidence[i].notes.pivot

\* an indirect record was appended while tasks of other hosts were in flight
C5_Witness ==
  /\ \E i \in 1..Len(evidence) : IsIndirect(evidence[i])
  /\ \E t \in 1..Len(tasks) : tasks[t].pc = "net_wait"

\* C6: the k-th record of the evidence list has id e-backlink-k when direct
\* and e-indirect-k when indirect
C6_IdsFollowPosition ==
  \A k \in 1..Len(evidence) :
    /\ evidence[k].id[2] = k
    /\ evidence[k].id[1] = (IF IsIndirect(evidence[k]) THEN "e-indirect" ELSE "e-backlink")

\* one page emitted a direct record and right after it an indirect record
C6_Witness ==
  \E k \in 1..(Len(evidence) - 1) :
    /\ IsDirect(evidence[k])
    /\ IsIndirect(evidence[k + 1])
    /\ evidence[k].target = evidence[k + 1].target

\* C7: once parent[C] is set, no step changes or removes it
C7_ParentWriteOnce ==
  [][\A c \in DOMAIN parent : c \in DOMAIN parent' /\ parent'[c] = parent[c]]_vars

\* a second confirmed pivot listed C among its neighbors after parent[C]
\* had been set to another pivot
C7_Witness ==
  \E c \in DOMAIN parent : \E b \in DOMAIN pivot_outlinked :
    /\ b # parent[c]
    /\ c \in pivot_outlinked[b]
    /\ c \in pivot_outlinked[parent[c]]

Seeded == config.seed_urls # <<>>

\* C8: every pass of the pre-fetch gate has hops < max_hops, and a URL is in
\* visited_urls only by such a pass (or as the origin of a seeded crawl)
C8_HopLimitPrunes ==
  /\ \A i \in 1..Len(fetch_log) : fetch_log[i].hops < config.max_hops
  /\ \A u \in visited_urls :
       \/ \E i \in 1..Len(fetch_log) : fetch_log[i].url = u
       \/ Seeded /\ u = normalized_origin_url

\* a task dequeued with hops >= max_hops has run to completion and its URL
\* is neither fetched nor visited
C8_Witness ==
  \E t \in 1..Len(tasks) :
    /\ tasks[t].hops >= config.max_hops
    /\ tasks[t].pc = "closed"
    /\ tasks[t].url \notin visited_urls

WebHasRelMe ==
  \E u \in DOMAIN config.web : \E i \in 1..Len(config.web[u]) :
    "me" \in config.web[u][i].rel

\* C9: with only_rel_me every record is a strong direct record whose link
\* carries rel=me, and without any rel=me link the evidence list is empty
C9_OnlyRelMe ==
  config.only_rel_me =>
    /\ \A i \in 1..Len(evidence) :
         /\ evidence[i].classification = "strong"
         /\ evidence[i].link.present
         /\ "me" \in evidence[i].link.rel
    /\ ~WebHasRelMe => evidence = <<>>

\* with only_rel_me a page with a plain backlink to the origin was processed
\* without a record, and a page with a rel=me backlink produced one
C9_Witness ==
  /\ config.only_rel_me
  /\ evidence # <<>>
  /\ \E t \in 1..Len(tasks) :
       /\ tasks[t].outcome = "ok"
       /\ tasks[t].pc = "closed"
       /\ tasks[t].url = K_url
       /\ K_url \notin evidence_producing_urls

AllFetchesSucceeded ==
  \A t \in 1..Len(tasks) : tasks[t].outcome \in {"none", "ok"}

Scenario5 ==
  /\ config.web = Web_Chain
  /\ config.seed_urls = <<>>
  /\ config.max_hops = 3
  /\ ~config.only_rel_me
  /\ main_pc = "returned"
  /\ AllFetchesSucceeded

\* C10: for A -> B, B -> A and C, C -> B with max_hops = 3 the finished
\* crawl holds exactly one direct record for B and then one indirect record
\* for C with pivot=B and chain=A<->B<->C
C10_Scenario5 ==
  Scenario5 =>
    /\ Len(evidence) = 2
    /\ IsDirect(evidence[1])
    /\ evidence[1].target.url = B_url
    /\ IsIndirect(evidence[2])
    /\ evidence[2].target.url = C_url
    /\ evidence[2].notes.pivot = <<B_url>>
    /\ evidence[2].notes.chain = <<A_url, B_url, C_url>>

C10_Witness == Scenario5 /\ Len(fetch_log) = 3


\* C11 as stated: no URL that matches a blacklist pattern is ever fetched
\* or added to visited_urls
C11_BlacklistedNeverVisited ==
  /\ \A i \in 1..Len(fetch_log) : ~is_blacklisted(fetch_log[i].url)
  /\ \A u \in visited_urls : ~is_blacklisted(u)

\* C11, amended: no URL that matches a blacklist pattern ever passes the
\* pre-fetch gate (cache lookup or GET), in blacklist mode and in whitelist
\* mode, and none is in visited_urls except the origin of a seeded crawl,
\* which is marked visited at seeding without being processed
C11_BlacklistedNeverFetched ==
  /\ \A i \in 1..Len(fetch_log) : ~is_blacklisted(fetch_log[i].url)
  /\ \A u \in visited_urls :
       is_blacklisted(u) => (Seeded /\ u = normalized_origin_url)

\* in whitelist mode a blacklisted link of a page was enqueued, ran as a
\* task and was rejected before the cache and the network, although the
\* cache holds its page
C11_Witness ==
  /\ config.only_whitelist
  /\ \E t \in 1..Len(tasks) :
       /\ is_blacklisted(tasks[t].url)
       /\ tasks[t].url \notin SeqToSet(config.seed_urls)
       /\ tasks[t].url \in cache
       /\ tasks[t].pc = "closed"
       /\ tasks[t].hops < config.max_hops
       /\ tasks[t].url \notin visited_urls


\* the GET of task t raised HTTPStatusError or RequestError and the task
\* has handled it
Failed(t) ==
  /\ tasks[t].outcome \in {"http_error", "network_error"}
  /\ tasks[t].pc \in {"finished", "closed"}

\* C12: each failed fetch has exactly one entry in errors and errors holds
\* nothing else, no evidence record has a failed URL as its target, and when
\* crawl() returns (or sleeps with nothing left to wake it) nothing is left
\* queued, waiting or in flight and every task created has run to completion
C12_FailuresAreLocal ==
  /\ Len(errors) = Cardinality({t \in 1..Len(tasks) : Failed(t)})
  /\ \A t \in 1..Len(tasks) :
       Failed(t) =>
         /\ Cardinality({i \in 1..Len(errors) : errors[i][2] = tasks[t].url}) = 1
         /\ \A i \in 1..Len(evidence) : evidence[i].target.url # tasks[t].url
  /\ (main_pc = "returned" \/ LostWakeup) =>
       /\ queue = <<>> /\ in_flight = {}
       /\ \A k \in DOMAIN waiting_by_domain : waiting_by_domain[k] = <<>>
       /\ \A t \in 1..Len(tasks) : tasks[t].pc = "closed"

\* a fetch failed, a page fetched after it produced evidence, and crawl()
\* returned
C12_Witness ==
  /\ main_pc = "returned"
  /\ \E i, j \in 1..Len(fetch_log) :
       /\ i < j
       /\ Failed(fetch_log[i].t)
       /\ \E k \in 1..Len(evidence) : evidence[k].target.url = fetch_log[j].url


\* C13: before crawl() runs, without seeds the queue is [(normalized
\* origin, 0)] and visited_urls is empty, with seeds the queue is the
\* normalized seeds in the given order at hop 1; in a seeded crawl the
\* normalized origin is in visited_urls at every moment and never passes
\* the pre-fetch gate
C13_Seeding ==
  /\ (main_pc = "start" /\ config.seed_urls = <<>>) =>
       /\ queue = <<[url |-> normalize_url(config.origin_url), hops |-> 0]>>
       /\ visited_urls = {}
  /\ (main_pc = "start" /\ config.seed_urls # <<>>) =>
       /\ Len(queue) = Len(config.seed_urls)
       /\ \A i \in 1..Len(queue) :
            queue[i] = [url |-> normalize_url(config.seed_urls[i]), hops |-> 1]
  /\ config.seed_urls # <<>> =>
       /\ normalize_url(config.origin_url) \in visited_urls
       /\ \A i \in 1..Len(fetch_log) :
            fetch_log[i].url # normalize_url(config.origin_url)

\* a seeded crawl whose seed list names the origin itself (in unnormalized
\* form) has emptied its queue and recorded a backlink to the origin
C13_Witness ==
  /\ \E i \in 1..Len(config.seed_urls) :
       /\ config.seed_urls[i] # normalize_url(config.origin_url)
       /\ normalize_url(config.seed_urls[i]) = normalize_url(config.origin_url)
  /\ queue = <<>>
  /\ main_pc # "start"
  /\ evidence # <<>>


\* position of the first occurrence of x in a log that holds it
FirstIndex(log, x) ==
  CHOOSE i \in 1..Len(log) : log[i] = x /\ \A j \in 1..(i - 1) : log[j] # x

\* the URLs of the tasks that entered _process_url, in that order
BegunUrls == [i \in 1..Len(begin_log) |-> tasks[begin_log[i]].url]

\* C14: for two URLs of one concurrency key, the one inserted into the
\* global queue first is the one whose processing begins first
C14_HostFifo ==
  \A u1, u2 \in SeqToSet(enq_log) :
    ( /\ u1 # u2
      /\ ConcurrencyKey(u1) = ConcurrencyKey(u2)
      /\ FirstIndex(enq_log, u1) < FirstIndex(enq_log, u2)
      /\ ~(Seeded /\ u1 = normalized_origin_url)
      /\ u2 \in SeqToSet(BegunUrls) )
    => /\ u1 \in SeqToSet(BegunUrls)
       /\ FirstIndex(BegunUrls, u1) < FirstIndex(BegunUrls, u2)


\* the numbers of strong, weak and indirect records of the scored list
ScoredCount(c) ==
  Cardinality({k \in 1..Len(call.evidence) : call.evidence[k].classification = c})

\* floor(85*min(1,S) + 50*min(1,W/2) + 10*min(1,I/5)), clamped to [0, 100]
ExpectedScore(S, W, I) ==
  LET sum10 == 850 * (IF S >= 1 THEN 1 ELSE 0)
               + 250 * (IF W >= 2 THEN 2 ELSE W)
               + 20 * (IF I >= 5 THEN 5 ELSE I)
      fl == sum10 \div 10
  IN IF fl > 100 THEN 100 ELSE IF fl < 0 THEN 0 ELSE fl

\* C15: calculate_score returns the clamped floor of the saturating sum and
\* the label of its thresholds, so the score is within [0, 100]; one strong
\* gives 85/high, two weak 50/medium, one strong and three weak 100/high
C15_ScoreFormula ==
  call.fn = "calculate_score" =>
    LET S == ScoredCount("strong")
        W == ScoredCount("weak")
        I == ScoredCount("indirect")
    IN /\ ret.score = ExpectedScore(S, W, I)
       /\ ret.score \in 0..100
       /\ ret.label = (IF ret.score >= 80 THEN "high"
                       ELSE IF ret.score >= 50 THEN "medium" ELSE "low")
       /\ (S = 1 /\ W = 0 /\ I = 0) => (ret.score = 85 /\ ret.label = "high")
       /\ (S = 0 /\ W = 2 /\ I = 0) => (ret.score = 50 /\ ret.label = "medium")
       /\ (S = 1 /\ W = 3 /\ I = 0) => (ret.score = 100 /\ ret.label = "high")

\* a list whose sum exceeds 100 was scored: one strong, three weak and an
\* indirect record, not in that order
C15_Witness ==
  /\ call.fn = "calculate_score"
  /\ ScoredCount("strong") = 1 /\ ScoredCount("weak") = 3
  /\ ScoredCount("indirect") = 1
  /\ call.evidence[1].classification = "indirect"
  /\ ret.score = 100

\* C16: the label is high iff the list holds a strong record, medium iff it
\* holds no strong record and at least two weak ones, low otherwise,
\* whatever the number of indirect records
C16_LabelByCounts ==
  call.fn = "calculate_score" =>
    LET S == ScoredCount("strong")
        W == ScoredCount("weak")
    IN /\ (ret.label = "high") <=> (S >= 1)
       /\ (ret.label = "medium") <=> (S = 0 /\ W >= 2)
       /\ (ret.label = "low") <=> (S = 0 /\ W <= 1)

\* a list with one weak record and indirect records beyond their saturation
\* was scored low, and one with two weak records and as many medium
C16_Witness ==
  /\ call.fn = "calculate_score"
  /\ ScoredCount("strong") = 0
  /\ ScoredCount("weak") = 1
  /\ ScoredCount("indirect") > IndirectSaturation
  /\ ret.label = "low"

\* C17: normalize_url(normalize_url(u)) = normalize_url(u) for every URL u
C17_NormalizeIdempotent ==
  call.fn = "normalize_url" => normalize_url(ret.url) = ret.url

\* C18: normalize_url lowercases scheme and host, empties the fragment,
\* drops exactly one trailing "/" of the path (so "/" becomes empty) and
\* returns the other path characters and the query as given
C18_NormalizeShape ==
  call.fn = "normalize_url" =>
    LET u == call.u
        r == ret.url
        n == Len(u.path)
    IN /\ r.scheme = Lower(u.scheme)
       /\ Len(r.netloc) = Len(u.netloc)
       /\ \A k \in 1..Len(u.netloc) : r.netloc[k] = Lower(u.netloc[k])
       /\ r.fragment = ""
       /\ r.query = u.query
       /\ r.path = (IF n > 0 /\ u.path[n] = "/" THEN SubSeq(u.path, 1, n - 1)
                                                ELSE u.path)

\* a URL with upper-case scheme and host, an upper-case path segment before
\* a trailing "/", an upper-case query and a fragment was normalized
C18_Witness ==
  /\ call.fn = "normalize_url"
  /\ call.u = UrlQ("HTTP", <<"GitHub", "com">>, <<"/", "Sponsors", "/">>, "Q=1", "frag")
  /\ ret.url = UrlQ("http", <<"github", "com">>, <<"/", "Sponsors">>, "Q=1", "")

\* the same-domain rule as the specification states it, for a candidate host
SameDomainExcluded(cand) ==
  LET orig == LowerSeq(normalized_origin_url.netloc)
  IN CASE config.same_domain_policy = "follow" -> FALSE
       [] config.same_domain_policy = "no-self-domain" -> cand = orig
       [] OTHER ->
            IF config.use_registrable_domain
              THEN registered_domain(cand) = registered_domain(orig)
              ELSE cand = orig \/ IsProperLabelSuffix(orig, cand)

IsCandidateCall ==
  call.fn \in {"queue_candidates_from_origin", "queue_candidates_from_pivot"}

\* C19: from the origin page and from a pivot page alike, a link that no
\* other gate rejects is enqueued iff the same-domain rule of the configured
\* policy does not exclude its host; with no-self-domain-or-subdomain the
\* page of Scenario 6 yields only https://other.example/x
C19_SameDomainRule ==
  IsCandidateCall =>
    /\ \A k \in 1..Len(call.elements) :
         LET u == normalize_url(urljoin(call.current_url, call.elements[k].href))
         IN (~is_blacklisted(u) /\ u \notin call.visited) =>
              (u \in SeqToSet(ret.urls) <=> ~SameDomainExcluded(LowerSeq(u.netloc)))
    /\ ( /\ config.same_domain_policy = "no-self-domain-or-subdomain"
         /\ call.elements = SubSeq(LinkPool, 1, 3)
         /\ call.visited = {} )
       => ret.urls = <<PageAt(hOther, <<"/", "x">>)>>

\* the URL is the section root github.com/sponsors or a deeper path of it
InSponsors(u) ==
  /\ LowerSeq(u.netloc) = hGithub
  /\ LET p == LowerSeq(u.path)
     IN \/ p = <<"/", "sponsors">>
        \/ Len(p) >= 3 /\ SubSeq(p, 1, 3) = <<"/", "sponsors", "/">>

\* the same, the path taken without its leading slashes
InSponsorsLoose(u) ==
  InSponsors([u EXCEPT !.path = <<"/">> \o LStripSlash(u.path)])

HasSponsorsPattern == config.blacklist \in {{Pat_Sponsors}, {Pat_Sponsors_Upper}}

\* the page of Scenario 4 was handed to the candidate selection
Scenario4 ==
  /\ call.fn = "queue_candidates_from_origin"
  /\ call.elements = SubSeq(LinkPool, 4, 5)
  /\ call.visited = {}

\* C20 as stated: with github.com/sponsors/* in the blacklist, is_blacklisted
\* holds exactly of the URLs on github.com whose path is /sponsors or lies
\* under /sponsors/, whatever the scheme, query or letter case; no such link
\* is enqueued from the origin page or a pivot page, and Scenario 4 yields
\* only https://github.com/pypa/pip
C20_SectionPattern ==
  HasSponsorsPattern =>
    /\ call.fn = "is_blacklisted" => (ret.matched <=> InSponsors(call.u))
    /\ IsCandidateCall => \A k \in 1..Len(ret.urls) : ~InSponsors(ret.urls[k])
    /\ Scenario4 => ret.urls = <<PageAt(hGithub, <<"/", "pypa", "/", "pip">>)>>

\* C20, amended: the same with the leading slashes of the path ignored
\* (github.com//sponsors/pypa is matched too)
C20_SectionPatternLoose ==
  HasSponsorsPattern =>
    /\ call.fn = "is_blacklisted" => (ret.matched <=> InSponsorsLoose(call.u))
    /\ IsCandidateCall => \A k \in 1..Len(ret.urls) : ~InSponsorsLoose(ret.urls[k])
    /\ Scenario4 => ret.urls = <<PageAt(hGithub, <<"/", "pypa", "/", "pip">>)>>

\* the section root, written with another scheme, letter case, a trailing
\* slash, a query and a fragment, was found blacklisted
C20_Witness ==
  /\ HasSponsorsPattern
  /\ call.fn = "is_blacklisted"
  /\ call.u = UrlQ("HTTP", <<"GitHub", "com">>, <<"/", "Sponsors", "/">>, "Q=1", "frag")
  /\ ret.matched

\* C21: in only_whitelist mode no page other than the origin is fetched
\* unless its URL matches a whitelist pattern, whether it was enqueued from
\* the origin page, from a pivot page or from the seed list.
C21_OnlyWhitelistedFetched ==
  config.only_whitelist =>
    \A i \in 1..Len(fetch_log) :
      \/ fetch_log[i].url = normalized_origin_url
      \/ is_whitelisted(fetch_log[i].url)

\* the sequence without its repeated members, first occurrences kept
RECURSIVE Dedupe(_)
Dedupe(q) ==
  IF q = <<>> THEN <<>>
  ELSE LET d == Dedupe(SubSeq(q, 1, Len(q) - 1))
       IN IF q[Len(q)] \in SeqToSet(d) THEN d ELSE Append(d, q[Len(q)])

\* the URLs of the elements of the called page that pass the policy filter,
\* in the order of the element list
Survivors ==
  LET els == extract_href_elements(call.elements)
      ok(el) ==
        IF call.fn = "queue_candidates_from_origin"
          THEN OriginCandidateOk(call.current_url, normalized_origin_url, el,
                                 {}, call.visited, <<>>)
          ELSE PivotCandidateOk(call.current_url, normalized_origin_url, el,
                                {}, call.visited, <<>>)
      kept == SelectSeq(els, ok)
  IN Dedupe([k \in 1..Len(kept) |->
               normalize_url(urljoin(call.current_url, kept[k].href))])

StoredEntry(fc, url) ==
  IF ~CacheDisabled(fc) /\ url \in DOMAIN fc._cache.items
    THEN fc._cache.items[url] ELSE None

\* the record is a 200 text/html response
HtmlOk(rec) == rec.status = 200 /\ ContainsTextHtml(rec.content_type)

\* C23: a cache read (FileCache.get) returns a stored record only if the
\* entry is present, unexpired, has status 200 and a content_type containing
\* text/html
C23_ReadGated ==
  (call.fn = "get" /\ ret.hit # None) =>
    /\ StoredEntry(file_cache, call.url) # None
    /\ StoredEntry(file_cache, call.url).expire_time > now
    /\ HtmlOk(ret.hit)

\* C23, amended: FileCache.get returns a stored record only if the entry is
\* present and unexpired; the crawler parses a cached record instead of
\* fetching only if, in addition, its status is 200 and its content_type
\* contains text/html
C23_ReadGatedByCrawler ==
  /\ (call.fn = "get" /\ ret.hit # None) =>
       /\ StoredEntry(file_cache, call.url) # None
       /\ StoredEntry(file_cache, call.url).expire_time > now
       /\ ret.hit = StoredEntry(file_cache, call.url).value
  /\ (call.fn = "cache lookup" /\ ret.soup # None) =>
       /\ StoredEntry(file_cache, call.url) # None
       /\ StoredEntry(file_cache, call.url).expire_time > now
       /\ HtmlOk(StoredEntry(file_cache, call.url).value)
       /\ ret.soup.text = StoredEntry(file_cache, call.url).value.text

\* the crawler looked up a URL whose unexpired entry is an error page, and
\* did not use it
C23_Witness ==
  /\ call.fn = "cache lookup"
  /\ StoredEntry(file_cache, call.url) # None
  /\ StoredEntry(file_cache, call.url).expire_time > now
  /\ StoredEntry(file_cache, call.url).value.status = 500
  /\ ret.soup = None

\* C24: with store_errors false, set_html_ok stores nothing unless the status
\* is 200 and the content_type contains text/html: the cache content is what
\* it was and every get returns what it returned before
C24_RejectedWriteStoresNothing ==
  [][ ( /\ call'.fn = "set_html_ok"
        /\ ~file_cache.cfg.store_errors
        /\ ~(call'.status = 200 /\ ContainsTextHtml(LowerSeq(call'.content_type))) )
      => /\ file_cache' = file_cache
         /\ \A u \in CacheUrls :
              FileCache_get(file_cache', now', u) = FileCache_get(file_cache, now, u)
    ]_vars

\* what a get returns for a response that was written
Logical(c) ==
  [final_url |-> c.final_url, status |-> c.status,
   headers |-> [k \in {Lower(x) : x \in DOMAIN c.headers} |->
                  c.headers[CHOOSE x \in DOMAIN c.headers : Lower(x) = k]],
   text |-> c.text, content_type |-> LowerSeq(c.content_type)]

\* set_html_ok accepts the write
Accepted(fc, c) == fc.cfg.enabled /\ (c.status = 200 \/ fc.cfg.store_errors)

\* C25: after an accepted set_html_ok, a get for the URL returns final_url,
\* status and text as written, headers with lowercased keys and unchanged
\* values, and the content_type lowercased, whatever was stored before; the
\* record stays readable until it expires or the URL is written again or the
\* cache is cleared; get returns the readable record
C25_RoundTrip ==
  [][ /\ (call'.fn = "set_html_ok" /\ Accepted(file_cache, call'))
         => FileCache_get(file_cache', now', call'.url) = Logical(call')
      /\ \A u \in CacheUrls :
           ( /\ FileCache_get(file_cache, now, u) # None
             /\ StoredEntry(file_cache, u).expire_time > now'
             /\ call'.fn # "clear_all"
             /\ ~(call'.fn = "set_html_ok" /\ call'.url = u) )
           => FileCache_get(file_cache', now', u) = FileCache_get(file_cache, now, u)
      /\ call'.fn = "get"
         => ret'.hit = FileCache_get(file_cache', now', call'.url)
    ]_vars

\* a response written in mixed case was read back, a second later, over an
\* earlier record for the same URL
C25_Witness ==
  /\ call.fn = "get"
  /\ ret.hit # None
  /\ ret.hit.content_type = <<"text/html", ";", "charset=utf-8">>
  /\ DOMAIN ret.hit.headers = {"content-type", "x-ratelimit"}
  /\ ret.hit.headers["x-ratelimit"] = "10"
  /\ ret.hit.final_url = K_url
  /\ now > 0
  /\ StoredEntry(file_cache, call.url).expire_time = now + 1

C27_FatalReraised ==
  (call.fn = "crawl_and_score" /\ ret.fatal) =>
    /\ ret.raised # "none"
    /\ ret.result = None

\* C29: crawl_and_score accepts the keyword options seed_urls,
\* trusted_overrides, blacklist_overrides, whitelist_overrides, max_hops,
\* only_whitelist and only_rel_me, and returns a Result
C29_OptionsAccepted ==
  (call.fn = "crawl_and_score" /\ DOMAIN call.kwargs \subseteq OptionNames) =>
    /\ ret.raised = "none"
    /\ ret.result # None

\* C30: when processing a URL raises an unexpected exception, the error
\* message is appended and the exception propagates out of crawl(): crawl()
\* does not return normally
C30_UnexpectedPropagates ==
  main_pc = "returned" =>
    \A t \in 1..Len(tasks) : tasks[t].outcome # "unexpected"


\* the page of u holds a backlink to the origin that the crawl accepts:
\* one is detected, and in only_rel_me mode the detected one carries rel=me
AcceptedBacklinkOn(u) ==
  /\ u \in DOMAIN config.web
  /\ LET tag == detect_backlink_element(u, normalized_origin_url,
                                        extract_href_elements(config.web[u]))
     IN tag # NoTag /\ (config.only_rel_me => "me" \in tag.rel)

\* task t obtained the page of its URL (from the network or from the cache)
\* and ran _process_url on it to the end
PageProcessed(t) ==
  /\ tasks[t].pc \in {"finished", "closed"}
  /\ \/ tasks[t].outcome = "ok"
     \/ \E i \in 1..Len(fetch_log) : fetch_log[i].t = t /\ fetch_log[i].via = "cache"

\* C31: every value of the parent map is a confirmed pivot, and a step that
\* enqueues a URL or writes a parent entry is the processing of the origin
\* page or of a page with an accepted backlink to the origin, which is then
\* a confirmed pivot and the value of every parent entry written
C31_FanOutOnlyFromPivots ==
  [][/\ \A c \in DOMAIN parent' : parent'[c] \in pivot_has_backlink_to_origin'
     /\ (enq_log' # enq_log \/ parent' # parent) =>
          /\ HeadIs("step")
          /\ LET u == tasks[Head(ready).t].url
             IN \/ u = normalized_origin_url /\ parent' = parent
                \/ /\ AcceptedBacklinkOn(u)
                   /\ u \in pivot_has_backlink_to_origin'
                   /\ \A c \in DOMAIN parent' \ DOMAIN parent : parent'[c] = u]_vars

\* a confirmed pivot fanned out, and a page that links to pages not yet
\* visited but holds no accepted backlink was processed without enqueueing
C31_Witness ==
  /\ parent # EmptyMap
  /\ \E t \in 1..Len(tasks) :
       /\ PageProcessed(t)
       /\ tasks[t].url # normalized_origin_url
       /\ ~AcceptedBacklinkOn(tasks[t].url)
       /\ \E i \in 1..Len(config.web[tasks[t].url]) :
            LET v == normalize_url(urljoin(tasks[t].url, config.web[tasks[t].url][i].href))
            IN v \notin visited_urls /\ v \notin SeqToSet(enq_log)
                 /\ _netloc(v) # _netloc(normalized_origin_url)


\* C32: _scheduled_urls is exactly the set of the URLs of the tasks in
\* in_flight, and both are empty once crawl() has returned
C32_ScheduledMatchesInFlight ==
  /\ scheduled_urls = {tasks[t].url : t \in in_flight}
  /\ main_pc = "returned" => (scheduled_urls = {} /\ in_flight = {})


\* the number of items for url in the global queue and in the waiting
\* deques together
Occurrences(url) ==
  Cardinality({i \in 1..Len(queue) : queue[i].url = url}) +
  Cardinality(UNION {{<<k, i>> : i \in {j \in 1..Len(waiting_by_domain[k]) :
                                          waiting_by_domain[k][j].url = url}} :
                     k \in DOMAIN waiting_by_domain})

\* C33: while crawl() runs each URL occurs at most once across the global
\* queue and the waiting deques, and _queued_urls is the set of the items of
\* the global queue
C33_NoDuplicateEnqueue ==
  main_pc # "start" =>
    /\ \A u \in SeqToSet(enq_log) : Occurrences(u) <= 1
    /\ queued_urls = SeqToSet(queue)


\* the resolved, normalized href of el is an http(s) URL equal to the
\* normalized target
Qualifies(cur, target, el) ==
  LET r == normalize_url(urljoin(cur, el.href))
  IN r.scheme \in {"http", "https"} /\ r = normalize_url(target)

\* C34 as stated: detect_backlink_element returns the first element of the
\* list whose resolved, normalized href equals the normalized target and has
\* scheme http or https, None when there is none, and an anchor to the
\* target wins over a head link to it
C34_FirstMatch ==
  call.fn = "detect_backlink_element" =>
    LET els == call.elements
        q == {i \in 1..Len(els) : Qualifies(call.current_url, call.origin_url, els[i])}
    IN /\ q = {} => ret.tag = NoTag
       /\ q # {} => ret.tag = els[CHOOSE i \in q : \A j \in q : i <= j]
       /\ (\E i \in 1..Len(call.soup) :
             /\ call.soup[i].tag = "a"
             /\ Qualifies(call.current_url, call.origin_url, call.soup[i]))
            => ret.tag.tag = "a"

\* C34, amended: the same over the elements whose href is not empty
C34_FirstMatchWithHref ==
  call.fn = "detect_backlink_element" =>
    LET els == call.elements
        q == {i \in 1..Len(els) :
                /\ els[i].href # EmptyHref
                /\ Qualifies(call.current_url, call.origin_url, els[i])}
    IN /\ q = {} => ret.tag = NoTag
       /\ q # {} => ret.tag = els[CHOOSE i \in q : \A j \in q : i <= j]
       /\ (\E i \in 1..Len(call.soup) :
             /\ call.soup[i].tag = "a"
             /\ call.soup[i].href # EmptyHref
             /\ Qualifies(call.current_url, call.origin_url, call.soup[i]))
            => ret.tag.tag = "a"

\* on a page that opens with a head link to the target and holds a mailto
\* link and an anchor with an empty href, the anchor that follows them in
\* the document was returned
C34_Witness ==
  /\ call.fn = "detect_backlink_element"
  /\ call.soup # <<>> /\ call.soup[1] = HeadLink(A_url, {"me"})
  /\ \E i \in 1..Len(call.elements) : call.elements[i].href.scheme = "mailto"
  /\ \E i \in 1..Len(call.elements) : call.elements[i].href = EmptyHref
  /\ ret.tag.tag = "a"
  /\ ret.tag.href.fragment = "frag"


\* C35: a pattern "*." + D matches a URL iff the URL's host is a proper
\* subdomain of D: one or more labels followed by the labels of D
C35_StrictSubdomain ==
  call.fn = "_match_url_against_patterns" =>
    (ret.matched <=> IsProperLabelSuffix(hExampleCom, LowerSeq(call.u.netloc)))


\* the Crawler object after `async with Crawler(...)`, as a record
InitialState ==
  [queue |-> InitialQueue(config), visited_urls |-> InitialVisited(config),
   evidence_producing_urls |-> {}, evidence |-> <<>>, errors |-> <<>>,
   parent |-> EmptyMap, pivot_has_backlink_to_origin |-> {},
   pivot_outlinked |-> EmptyMap, scheduled_urls |-> {}, queued_urls |-> {},
   domain_sems |-> EmptyMap, waiting_by_domain |-> EmptyMap, domain_keys |-> <<>>,
   in_flight |-> {}, tasks |-> <<>>, ready |-> <<MainHandle>>,
   queue_event |-> FALSE, main_pc |-> "start", cache |-> config.cache_init,
   fetch_log |-> <<>>, enq_log |-> <<>>, begin_log |-> <<>>]

\* one step of the event loop in the order of arrival: the first ready
\* callback runs; when none is ready the oldest pending GET is answered
\* with the page
FifoStep(s) ==
  IF s.ready # <<>>
    THEN LET h == Head(s.ready)
             s1 == [s EXCEPT !.ready = Tail(@)]
         IN IF h.kind = "main"
              THEN (IF s.main_pc = "start" THEN Bootstrap(s1) ELSE SchedulerLoop(s1))
            ELSE IF h.kind = "done_cb" THEN _done_cb(s1, h.t)
            ELSE IF s.tasks[h.t].pc = "created" THEN RunOne(s1, h.t)
            ELSE IF s.tasks[h.t].pc = "sem_granted" THEN SemGranted(s1, h.t)
            ELSE FetchReturned(s1, h.t)
  ELSE LET pending == {t \in 1..Len(s.tasks) : s.tasks[t].pc = "net_wait"}
           t == CHOOSE x \in pending : \A y \in pending : x <= y
       IN [s EXCEPT !.tasks[t].pc = "net_done", !.tasks[t].outcome = "ok",
                    !.ready = Append(@, StepHandle(t))]

\* the crawl run in the order of arrival until crawl() returns
RECURSIVE FifoRun(_)
FifoRun(s) ==
  IF s.main_pc = "returned" THEN s
  ELSE IF s.ready = <<>> /\ \A t \in 1..Len(s.tasks) : s.tasks[t].pc # "net_wait" THEN s
  ELSE FifoRun(FifoStep(s))

\* the records of an evidence list without their ids
RecordSet(ev) == {[ev[i] EXCEPT !.id = <<>>] : i \in 1..Len(ev)}

\* crawl() has returned and every page requested was served
CompleteCrawl == main_pc = "returned" /\ AllFetchesSucceeded

\* C36: when every page is served, a finished crawl holds the same records
\* (ids aside), and so the same score and label, as the crawl of the same
\* configuration in which the fetches complete in the order they were
\* started
C36_OrderIndependent ==
  (CompleteCrawl /\ FifoRun(InitialState).main_pc = "returned") =>
    /\ RecordSet(evidence) = RecordSet(FifoRun(InitialState).evidence)
    /\ calculate_score(evidence) = calculate_score(FifoRun(InitialState).evidence)


\* the page of `from` holds an element whose href resolves to `to`
LinksTo(from, to) ==
  /\ from \in DOMAIN config.web
  /\ \E i \in 1..Len(config.web[from]) :
       normalize_url(urljoin(from, config.web[from][i].href)) = to

\* C37: without seeds the target of every direct record is a page that the
\* origin page links to and that links back to the origin
C37_DirectIsMutual ==
  config.seed_urls = <<>> =>
    \A i \in 1..Len(evidence) :
      IsDirect(evidence[i]) =>
        /\ LinksTo(normalized_origin_url, evidence[i].target.url)
        /\ LinksTo(evidence[i].target.url, normalized_origin_url)


\* the crawl of the same configuration that finds its cache empty and so
\* requests every page, the fetches completing in the order they were started
NetworkCrawl == FifoRun([InitialState EXCEPT !.cache = {}])

\* C38: a finished crawl whose pages were all served, some of them from the
\* cache, holds the records, the visited set and the parent map of the crawl
\* that requests every page, and no URL served from the cache is requested
C38_CacheTransparent ==
  /\ \A i \in 1..Len(fetch_log) :
       fetch_log[i].via = "cache" =>
         /\ tasks[fetch_log[i].t].outcome = "none"
         /\ tasks[fetch_log[i].t].pc \notin {"net_wait", "net_done"}
         /\ \A j \in 1..Len(fetch_log) :
              fetch_log[j].url = fetch_log[i].url => j = i
  /\ CompleteCrawl =>
       /\ RecordSet(evidence) = RecordSet(NetworkCrawl.evidence)
       /\ visited_urls = NetworkCrawl.visited_urls
       /\ parent = NetworkCrawl.parent


\* the page at u holds a fetchable link to the origin whose rel has the
\* token me
HasRelMeLinkToOrigin(u) ==
  /\ u \in DOMAIN config.web
  /\ \E i \in 1..Len(config.web[u]) :
       /\ Qualifies(u, normalized_origin_url, config.web[u][i])
       /\ "me" \in _rel_list(config.web[u][i])

\* C39: with only_rel_me every processed candidate page that holds some
\* fetchable rel=me link to the origin has a strong record, whatever other
\* links to the origin the page holds, and a processed page without such a
\* link has no record
C39_RelMeAnywhere ==
  config.only_rel_me =>
    \A t \in 1..Len(tasks) :
      (PageProcessed(t) /\ tasks[t].url # normalized_origin_url) =>
        (HasRelMeLinkToOrigin(tasks[t].url) <=>
           \E i \in 1..Len(evidence) :
             /\ evidence[i].classification = "strong"
             /\ evidence[i].target.url = tasks[t].url)


\* C40: in a call of crawl_and_score with no overrides the configuration
\* handed to the primary crawler holds the cache key that the crawler reads
\* when it starts, and the errors of the result hold no 'Fatal crawler
\* error' entry for a configuration key
C40_DefaultConfigStarts ==
  (call.fn = "crawl_and_score" /\ DOMAIN call.kwargs = {}) =>
    /\ HttpxCrawlerStarts(ApplyOverrides(_load_config, call.kwargs))
    /\ FatalEntry("KeyError: cache") \notin SeqToSet(ret.result.errors)

====
